---- MODULE Spec2Model ----
(***************************************************************************)
(* A model of the iCentral post service (feed, posts, tags, votes, sweep)  *)
(* and of the alumni-verification workflow of the user service, as state   *)
(* machines over the shared relational datastore.                          *)
(*                                                                         *)
(* Every HTTP handler is a sequence of steps, one per datastore call: a    *)
(* step executes the call atomically (one SQL statement) together with     *)
(* the synchronous code around it.  `req[p]` is the request that slot p of *)
(* the service is handling and the position it has reached; `out` is the   *)
(* response most recently sent, with the request it answers.               *)
(***************************************************************************)
EXTENDS Integers, Sequences, FiniteSets, TLC

\* ------------------------------------------------------------------ bounds
MaxProcs == 2       \* requests in flight at once
MaxPosts == 2       \* rows of the posts table
MaxTime  == 1       \* clock ticks
MaxApps  == 2       \* verification applications
MaxHistory == 3     \* applications in a drawn verification history
MaxComments == 2    \* comment rows ever inserted

Procs == 1..MaxProcs
Times == 0..MaxTime

\* ---------------------------------------------------------------- values
NoUser   == 0       \* a missing credential / a null author_id
NullTime == -1      \* SQL NULL in a timestamptz column
BadDate  == -2      \* a string Date cannot parse
MaxContentLength == 5000    \* content.length > 5000 is refused

\* The identity directory: the claims a signed credential of each account
\* carries.  Role strings are compared after lowercasing.
Users == 1..5
RoleOf(u) ==
    CASE u = 1 -> "admin" [] u = 2 -> "alumni" [] u = 3 -> "student" [] u = 4 -> "Faculty"
      [] OTHER -> "alumni"
Credential(u) == [id |-> u, role |-> RoleOf(u)]
NoCredential == [id |-> NoUser, role |-> ""]

Put(f, k, v) == [x \in DOMAIN f \cup {k} |-> IF x = k THEN v ELSE f[x]]
Has(f, k) == k \in DOMAIN f
Get(f, k, d) == IF k \in DOMAIN f THEN f[k] ELSE d
Merge(f, g) == [x \in DOMAIN f \cup DOMAIN g |-> IF x \in DOMAIN g THEN g[x] ELSE f[x]]

\* ------------------------------------------------------ string functions
\* Text is a sequence of one-character strings.
UpperOf == [a |-> "A", e |-> "E", j |-> "J", n |-> "N", s |-> "S"]
ToLowerChar(c) == IF \E k \in DOMAIN UpperOf : UpperOf[k] = c
                  THEN CHOOSE k \in DOMAIN UpperOf : UpperOf[k] = c
                  ELSE c
toLowerCase(s) == [i \in 1..Len(s) |-> ToLowerChar(s[i])]
LowerAlnum == {"a","b","c","d","e","f","g","h","i","j","k","l","m","n","o","p","q","r",
               "s","t","u","v","w","x","y","z","0","1","2","3","4","5","6","7","8","9"}
IsSpace(c) == c = " "

RECURSIVE trimStart(_)
trimStart(s) == IF s # <<>> /\ IsSpace(Head(s)) THEN trimStart(Tail(s)) ELSE s
RECURSIVE trimEnd(_)
trimEnd(s) == IF s # <<>> /\ IsSpace(s[Len(s)]) THEN trimEnd(SubSeq(s, 1, Len(s) - 1)) ELSE s
trim(s) == trimEnd(trimStart(s))

\* .replace(/[^a-z0-9]+/g, '-'): every maximal run of other characters
\* becomes one hyphen.
RECURSIVE ReplaceRuns(_, _)
ReplaceRuns(s, inRun) ==
    IF s = <<>> THEN <<>>
    ELSE IF Head(s) \in LowerAlnum THEN <<Head(s)>> \o ReplaceRuns(Tail(s), FALSE)
    ELSE IF inRun THEN ReplaceRuns(Tail(s), TRUE)
    ELSE <<"-">> \o ReplaceRuns(Tail(s), TRUE)

\* .replace(/^-+|-+$/g, '')
RECURSIVE StripLeadingHyphens(_)
StripLeadingHyphens(s) == IF s # <<>> /\ Head(s) = "-" THEN StripLeadingHyphens(Tail(s)) ELSE s
RECURSIVE StripTrailingHyphens(_)
StripTrailingHyphens(s) ==
    IF s # <<>> /\ s[Len(s)] = "-" THEN StripTrailingHyphens(SubSeq(s, 1, Len(s) - 1)) ELSE s

slugify(value) ==
    StripTrailingHyphens(StripLeadingHyphens(ReplaceRuns(toLowerCase(trim(value)), FALSE)))

\* .trim().replace(/[(),]/g, ' ').replace(/\s+/g, ' ')
RECURSIVE CollapseSpaces(_, _)
CollapseSpaces(s, inRun) ==
    IF s = <<>> THEN <<>>
    ELSE IF ~IsSpace(Head(s)) THEN <<Head(s)>> \o CollapseSpaces(Tail(s), FALSE)
    ELSE IF inRun THEN CollapseSpaces(Tail(s), TRUE)
    ELSE <<" ">> \o CollapseSpaces(Tail(s), TRUE)
sanitizeSearchTerm(term) ==
    LET t == trim(term)
        r == [i \in 1..Len(t) |-> IF t[i] \in {"(", ")", ","} THEN " " ELSE t[i]]
    IN  CollapseSpaces(r, FALSE)

\* column ILIKE '%term%': a case-insensitive substring match.
ilikeContains(text, term) ==
    LET a == toLowerCase(text)
        b == toLowerCase(term)
    IN  \E i \in 1..(Len(a) - Len(b) + 1) : SubSeq(a, i, i + Len(b) - 1) = b

\* Roles and post types are short strings; only their case matters.
lowerRole(role) == CASE role = "Admin" -> "admin" [] role = "Faculty" -> "faculty"
                     [] role = "Alumni" -> "alumni" [] OTHER -> role
upperType(type) == CASE type = "announcement" -> "ANNOUNCEMENT" [] type = "job" -> "JOB"
                     [] type = "event" -> "EVENT" [] OTHER -> type

isModeratorRole(role) == lowerRole(role) \in {"admin", "faculty"}
isAlumniRole(role) == lowerRole(role) = "alumni"
\* (AnyRoleCanAnnounce: the announcement gate without its role check)
AnyRoleCanAnnounce(role) == TRUE
canCreateAnnouncement(role) == isModeratorRole(role)
canCreateJobAsBypassRole(role) == isModeratorRole(role)

\* -------------------------------------------------------------- variables
VARIABLES
    now,            \* the clock
    posts,          \* table posts: a sequence, the id of a row is its index
    tags,           \* table tags: a set of rows [id, name, slug]
    postTags,       \* table post_tags: a set of rows [post_id, tag_id]
    postRefs,       \* table post_refs: a sequence of rows (no uniqueness constraint)
    postVotes,      \* table post_votes: a set of rows [post_id, user_id, vote]
    comments,       \* table post_comments: a sequence, the id of a row is its index
    applications,   \* table alumni_verification_applications: a sequence of rows
    notificationStates, \* table user_notification_states: user -> last_seen_at
    notificationReads,  \* table user_notification_reads: rows [user_id, notification_key]
    req,            \* per slot: the request being handled and its position
    out,            \* the response most recently sent
    sweptIds        \* history: the ids of the posts a run of the sweep has archived

notifications == <<notificationStates, notificationReads>>
tables == <<posts, tags, postTags, postRefs, postVotes, comments, applications, notifications>>
vars == <<now, posts, tags, postTags, postRefs, postVotes, comments, applications, notifications,
          req, out, sweptIds>>

Idle == [op |-> "idle"]
NoResponse == [status |-> 0, req |-> Idle]

Init ==
    /\ now = 0
    /\ posts = <<>>
    /\ tags = {}
    /\ postTags = {}
    /\ postRefs = <<>>
    /\ postVotes = {}
    /\ comments = <<>>
    /\ applications = <<>>
    /\ notificationStates = [u \in Users |-> NullTime]
    /\ notificationReads = {}
    /\ req = [p \in Procs |-> Idle]
    /\ out = NoResponse
    /\ sweptIds = {}

\* ------------------------------------------------------- request plumbing
At(p, op, pc) == req[p].op = op /\ req[p].pc = pc

\* A request arrives at a free slot.
Receive(p, r) ==
    /\ req[p] = Idle
    /\ req' = [req EXCEPT ![p] = Put(r, "pc", "start")]
    /\ UNCHANGED <<now, sweptIds, tables, out>>

\* res.status(code).json(data): the handler returns.
Reply(p, code, data) ==
    /\ req' = [req EXCEPT ![p] = Idle]
    /\ out' = [status |-> code, req |-> req[p], data |-> data]

Goto(p, pc, locals) ==
    /\ req' = [req EXCEPT ![p] = Merge(Put(@, "pc", pc), locals)]
    /\ out' = out

Tick ==
    /\ now < MaxTime
    /\ now' = now + 1
    /\ UNCHANGED <<sweptIds, tables, req, out>>

\* ------------------------------------------------------------------ votes
parseVoteInput(value) ==
    IF value = "" THEN [error |-> TRUE, value |-> 0]
    ELSE IF value \in {"1", "up", "upvote", "true"} THEN [error |-> FALSE, value |-> 1]
    ELSE IF value \in {"-1", "down", "downvote"} THEN [error |-> FALSE, value |-> -1]
    ELSE IF value \in {"0", "none", "clear", "neutral", "remove", "false"}
         THEN [error |-> FALSE, value |-> 0]
    ELSE [error |-> TRUE, value |-> 0]

PostExists(id) == id \in 1..Len(posts)

\* .upsert(row, { onConflict: 'post_id,user_id' }) on post_votes
\* (InsertVoteRow: the same write without the conflict target)
\* (ToggleVote: a repeated vote of the same direction takes the vote back)
\* (UpsertIgnoreDuplicates: the upsert with ignoreDuplicates, which keeps the
\* stored row)
InsertVoteRow(rows, row) == rows \cup {row}
ToggleVote(rows, row) ==
    IF row \in rows THEN rows \ {row}
    ELSE {r \in rows : ~(r.post_id = row.post_id /\ r.user_id = row.user_id)} \cup {row}
UpsertIgnoreDuplicates(rows, row) ==
    IF \E r \in rows : r.post_id = row.post_id /\ r.user_id = row.user_id THEN rows
    ELSE rows \cup {row}
UpsertVote(rows, row) ==
    {r \in rows : ~(r.post_id = row.post_id /\ r.user_id = row.user_id)} \cup {row}

\* .delete().eq('post_id', postId).eq('user_id', userId)
\* (DeleteVotesOfPost: the delete without .eq('user_id', userId))
DeleteVotesOfPost(rows, postId, userId) == {r \in rows : r.post_id # postId}
DeleteVote(rows, postId, userId) ==
    {r \in rows : ~(r.post_id = postId /\ r.user_id = userId)}

getVoteSummary(postId, requestUserId) ==
    LET rows == {r \in postVotes : r.post_id = postId}
        ups == Cardinality({r \in rows : r.vote = 1})
        downs == Cardinality({r \in rows : r.vote = -1})
        mine == {r \in rows : requestUserId # NoUser /\ r.user_id = requestUserId}
    IN  [score |-> ups - downs, upvoteCount |-> ups, downvoteCount |-> downs,
         userVote |-> IF \E r \in mine : r.vote = 1 THEN "up"
                      ELSE IF \E r \in mine : r.vote = -1 THEN "down" ELSE "null"]

\* ensureAuthenticated, parseVoteInput, getPostMetaById and the archived check
VoteStart(p) ==
    /\ At(p, "vote", "start")
    /\ UNCHANGED <<now, sweptIds, tables>>
    /\ LET r == req[p]
           voteInput == parseVoteInput(r.vote)
       IN  IF r.caller.id = NoUser THEN Reply(p, 401, "Authentication required")
           ELSE IF voteInput.error THEN Reply(p, 400, "vote must be one of: up, down, none")
           ELSE IF ~PostExists(r.postId) THEN Reply(p, 404, "Post not found")
           ELSE IF posts[r.postId].status = "archived"
                THEN Reply(p, 400, "Archived posts cannot be voted on.")
           ELSE Goto(p, "write", [voteValue |-> voteInput.value])

\* the delete or the upsert of the caller's row
VoteWrite(p) ==
    /\ At(p, "vote", "write")
    /\ LET r == req[p]
       IN  postVotes' = IF r.voteValue = 0
                        THEN DeleteVote(postVotes, r.postId, r.caller.id)
                        ELSE UpsertVote(postVotes, [post_id |-> r.postId, user_id |-> r.caller.id,
                                                    vote |-> r.voteValue])
    /\ Goto(p, "read", <<>>)
    /\ UNCHANGED <<now, notifications, comments, sweptIds, posts, tags, postTags, postRefs, applications>>

\* getPostById for the response
VoteRead(p) ==
    /\ At(p, "vote", "read")
    /\ Reply(p, 200, getVoteSummary(req[p].postId, req[p].caller.id))
    /\ UNCHANGED <<now, sweptIds, tables>>


\* --------------------------------------------------------------- comments
\* A comment text is its visible part, the length of that part in characters,
\* and the number of whitespace characters around it.
Text(text, len, pad) == [text |-> text, len |-> len, pad |-> pad]
EmptyText == Text("", 0, 0)

\* String(value ?? '').trim()
normalizeText(value) == [value EXCEPT !.pad = 0]

\* parseCommentInput(body)
parseCommentInput(body) ==
    LET content == normalizeText(Get(body, "content", EmptyText))
    IN  [content |-> content,
         errors |-> content.len = 0 \/ content.len > MaxContentLength]

\* a deleted row leaves its id behind: ids are never reused
NoComment == [id |-> 0]
getPostCommentById(postId, commentId) ==
    IF /\ commentId \in 1..Len(comments) /\ ~comments[commentId].deleted
       /\ comments[commentId].post_id = postId
    THEN comments[commentId] ELSE NoComment

\* the comment count of getPostById
commentCount(postId) ==
    Cardinality({i \in 1..Len(comments) : ~comments[i].deleted /\ comments[i].post_id = postId})

\* isOwner || isModeratorRole(req.requestUser.role)
\* (AnyCallerMayModify: the handlers without their ownership check)
AnyCallerMayModify(existingComment, caller) == TRUE
MayModifyComment(existingComment, caller) ==
    existingComment.author_id = caller.id \/ isModeratorRole(caller.role)

\* POST /posts/:id/comments: ensureAuthenticated, parseCommentInput,
\* getPostMetaById and the archived check
CommentsStart(p) ==
    /\ At(p, "comment", "start")
    /\ UNCHANGED <<now, sweptIds, tables>>
    /\ LET r == req[p]
           payload == parseCommentInput(r.body)
       IN  IF r.caller.id = NoUser THEN Reply(p, 401, "Authentication required")
           ELSE IF payload.errors THEN Reply(p, 400, "Validation failed")
           ELSE IF ~PostExists(r.postId) THEN Reply(p, 404, "Post not found")
           ELSE IF posts[r.postId].status = "archived"
                THEN Reply(p, 400, "Archived posts cannot be commented on.")
           ELSE Goto(p, "insert", [content |-> payload.content])

\* the insert
CommentsInsert(p) ==
    /\ At(p, "comment", "insert")
    /\ Len(comments) < MaxComments
    /\ LET r == req[p]
           id == Len(comments) + 1
       IN  /\ comments' = Append(comments,
                                 [id |-> id, post_id |-> r.postId, author_id |-> r.caller.id,
                                  content |-> r.content, created_at |-> now,
                                  updated_at |-> now, deleted |-> FALSE])
           /\ Goto(p, "count", [commentId |-> id, okStatus |-> 201])
    /\ UNCHANGED <<now, notifications, sweptIds, posts, tags, postTags, postRefs, postVotes, applications>>

\* getPostById for meta.commentCount, in POST and in DELETE
CommentsCount(p) ==
    /\ req[p].op \in {"comment", "deleteComment"} /\ req[p].pc = "count"
    /\ Reply(p, req[p].okStatus,
             [id |-> req[p].commentId,
              commentCount |-> IF PostExists(req[p].postId) THEN commentCount(req[p].postId) ELSE 0])
    /\ UNCHANGED <<now, sweptIds, tables>>

\* PATCH /posts/:id/comments/:commentId up to its update
CommentEditStart(p) ==
    /\ At(p, "editComment", "start")
    /\ UNCHANGED <<now, sweptIds, tables>>
    /\ LET r == req[p]
           payload == parseCommentInput(r.body)
           existingComment == getPostCommentById(r.postId, r.commentId)
       IN  IF r.caller.id = NoUser THEN Reply(p, 401, "Authentication required")
           ELSE IF payload.errors THEN Reply(p, 400, "Validation failed")
           ELSE IF existingComment = NoComment THEN Reply(p, 404, "Comment not found")
           ELSE IF ~MayModifyComment(existingComment, r.caller)
                THEN Reply(p, 403, "You can only edit your own comment.")
           ELSE Goto(p, "update", [content |-> payload.content])

\* .update({content, updated_at}).eq('id', commentId).eq('post_id', postId)
\* .select('*').single(): no row is an error
CommentEditUpdate(p) ==
    /\ At(p, "editComment", "update")
    /\ LET r == req[p]
       IN  IF getPostCommentById(r.postId, r.commentId) = NoComment
           THEN Reply(p, 500, "update failed") /\ UNCHANGED <<now, sweptIds, tables>>
           ELSE /\ comments' = [comments EXCEPT ![r.commentId].content = r.content,
                                                ![r.commentId].updated_at = now]
                /\ Reply(p, 200, comments'[r.commentId])
                /\ UNCHANGED <<now, notifications, sweptIds, posts, tags, postTags, postRefs,
                               postVotes, applications>>

\* DELETE /posts/:id/comments/:commentId up to its delete
CommentDeleteStart(p) ==
    /\ At(p, "deleteComment", "start")
    /\ UNCHANGED <<now, sweptIds, tables>>
    /\ LET r == req[p]
           existingComment == getPostCommentById(r.postId, r.commentId)
       IN  IF r.caller.id = NoUser THEN Reply(p, 401, "Authentication required")
           ELSE IF existingComment = NoComment THEN Reply(p, 404, "Comment not found")
           ELSE IF ~MayModifyComment(existingComment, r.caller)
                THEN Reply(p, 403, "You can only delete your own comment.")
           ELSE Goto(p, "delete", <<>>)

\* .delete().eq('id', commentId).eq('post_id', postId)
CommentDeleteRow(p) ==
    /\ At(p, "deleteComment", "delete")
    /\ LET r == req[p]
       IN  comments' = IF getPostCommentById(r.postId, r.commentId) = NoComment THEN comments
                       ELSE [comments EXCEPT ![r.commentId].deleted = TRUE]
    /\ Goto(p, "count", [okStatus |-> 200])
    /\ UNCHANGED <<now, notifications, sweptIds, posts, tags, postTags, postRefs, postVotes, applications>>

\* ------------------------------------------------ alumni verification (read)
\* post service, resolveVerificationStatus(rows)
\* (resolveVerificationPendingFirst: the same checks with pending before approved)
resolveVerificationPendingFirst(rows) ==
    IF \E i \in 1..Len(rows) : rows[i].status = "pending" THEN "pending"
    ELSE IF \E i \in 1..Len(rows) : rows[i].status = "approved" THEN "approved"
    ELSE IF \E i \in 1..Len(rows) : rows[i].status = "rejected" THEN "rejected"
    ELSE "not_submitted"
resolveVerificationStatus(rows) ==
    IF \E i \in 1..Len(rows) : rows[i].status = "approved" THEN "approved"
    ELSE IF \E i \in 1..Len(rows) : rows[i].status = "pending" THEN "pending"
    ELSE IF \E i \in 1..Len(rows) : rows[i].status = "rejected" THEN "rejected"
    ELSE "not_submitted"

\* .eq('applicant_id', applicantId).order('created_at', { ascending: false })
RECURSIVE Reverse(_)
Reverse(s) == IF s = <<>> THEN <<>> ELSE Append(Reverse(Tail(s)), Head(s))
ApplicationsOf(applicantId) ==
    Reverse(SelectSeq(applications, LAMBDA a : a.applicant_id = applicantId))

getAlumniVerificationStatus(applicantId) ==
    resolveVerificationStatus(ApplicationsOf(applicantId))

\* ------------------------------------------------------------ post payload
\* A request body is a record holding the fields the client sent.
\* parseBool of a query-string value ("" when the parameter is absent); a JSON
\* boolean is returned as it is.
parseBool(value, fallback) ==
    IF value = "" THEN fallback
    ELSE IF value \in {"true", "1", "yes", "y", "on"} THEN TRUE
    ELSE IF value \in {"false", "0", "no", "n", "off"} THEN FALSE
    ELSE fallback

normalizeDate(body) ==
    IF ~Has(body, "expiresAt") THEN [error |-> FALSE, defined |-> FALSE, value |-> NullTime]
    ELSE IF body.expiresAt = NullTime THEN [error |-> FALSE, defined |-> TRUE, value |-> NullTime]
    ELSE IF body.expiresAt = BadDate THEN [error |-> TRUE, defined |-> FALSE, value |-> NullTime]
    ELSE [error |-> FALSE, defined |-> TRUE, value |-> body.expiresAt]

NullRef == [null |-> TRUE]

\* archiveInput === true (the JSON boolean)
\* (ArchiveUnlessStatus: the shortcut yielding to a status sent with it)
ArchiveUnlessStatus(body) ==
    Has(body, "archive") /\ body.archive = TRUE /\ ~Has(body, "status")
ArchiveRequested(body) == Has(body, "archive") /\ body.archive = TRUE

\* if (!postFields.status) postFields.status = 'draft'
\* (PublishedByDefault: the default the feed's own default filter would show)
PublishedByDefault == "published"
DefaultStatus == "draft"

buildPostPayload(body, partial) ==
    LET expiresAtResult == normalizeDate(body)
        archived == ArchiveRequested(body)
        f0 == [k \in {"type", "title", "summary"} \cap DOMAIN body |-> body[k]]
        f1 == IF Has(body, "authorId") THEN Put(f0, "author_id", body.authorId) ELSE f0
        f2 == IF archived THEN Put(f1, "status", "archived")
              ELSE IF Has(body, "status") THEN Put(f1, "status", body.status) ELSE f1
        f3 == IF Has(body, "pinned") THEN Put(f2, "pinned", body.pinned) ELSE f2
        f4 == IF expiresAtResult.defined THEN Put(f3, "expires_at", expiresAtResult.value) ELSE f3
        f5 == IF partial THEN f4
              ELSE LET g == IF ~Has(f4, "status") \/ f4.status = ""
                            THEN Put(f4, "status", DefaultStatus) ELSE f4
                   IN  IF Has(g, "pinned") THEN g ELSE Put(g, "pinned", FALSE)
        refInput == Get(body, "ref", NullRef)
        refValid == Has(body, "ref") /\ refInput # NullRef
                    /\ Has(refInput, "service") /\ trim(refInput.service) # <<>>
                    /\ Has(refInput, "entityId")
    IN  [errors |-> \/ expiresAtResult.error
                    \/ (~partial /\ (~Has(f4, "type") \/ f4.type = ""))
                    \/ (~partial /\ Has(f4, "author_id") /\ f4.author_id = NoUser)
                    \/ (Has(body, "ref") /\ refInput # NullRef /\ ~refValid),
         postFields |-> f5,
         tagsProvided |-> Has(body, "tagIds") \/ Has(body, "tags"),
         tagIds |-> Get(body, "tagIds", {}),
         tagNames |-> {trim(body.tags[i]) : i \in 1..Len(Get(body, "tags", <<>>))} \ {<<>>},
         refProvided |-> Has(body, "ref"),
         ref |-> IF refValid
                 THEN [service |-> trim(refInput.service), entity_id |-> refInput.entityId,
                       null |-> FALSE]
                 ELSE NullRef]

\* ----------------------------------------------------------- POST /posts
StatusValues == {"draft", "published", "archived"}

\* The row the datastore stores for an insert of `fields`: absent columns
\* take their defaults.  (created_at and updated_at are written here and by
\* no other statement; they order the feed page and are left out.)
NewPostRow(id, fields) ==
    [id |-> id,
     type |-> fields.type,
     title |-> Get(fields, "title", ""),
     summary |-> Get(fields, "summary", ""),
     author_id |-> Get(fields, "author_id", NoUser),
     status |-> Get(fields, "status", "draft"),
     pinned |-> Get(fields, "pinned", FALSE),
     expires_at |-> Get(fields, "expires_at", NullTime)]

\* posts_status_check and the NOT NULL columns
PostRowAccepted(fields) ==
    /\ Has(fields, "type")
    /\ Get(fields, "status", "draft") \in StatusValues

AfterTagsPc(r) == IF r.payload.refProvided THEN "ref_delete" ELSE "read"
AfterRowPc(r) ==
    IF r.payload.tagsProvided
    THEN IF r.payload.tagNames # {} THEN "tags_ensure" ELSE "tags_delete"
    ELSE AfterTagsPc(r)

\* .insert(payload.postFields).select('*').single()
InsertPost(p, payload, fields) ==
    IF ~PostRowAccepted(fields)
    THEN /\ Reply(p, 500, "insert failed")
         /\ UNCHANGED <<now, sweptIds, tables>>
    ELSE /\ Len(posts) < MaxPosts
         /\ posts' = Append(posts, NewPostRow(Len(posts) + 1, fields))
         /\ Goto(p, AfterRowPc([payload |-> payload]),
                 [payload |-> payload, postId |-> Len(posts) + 1, okStatus |-> 201])
         /\ UNCHANGED <<now, notifications, comments, sweptIds, tags, postTags, postRefs, postVotes, applications>>

\* The authoring policy of POST /posts: the outcome of the synchronous
\* checks, before any verification lookup.
\* (AuthoringGateAuthAll: the policy that asks for a credential whatever the type)
AuthoringGateAuthAll(type, caller) ==
    IF caller.id = NoUser THEN "401"
    ELSE IF upperType(type) = "ANNOUNCEMENT" /\ ~canCreateAnnouncement(caller.role) THEN "403"
    ELSE IF upperType(type) = "JOB" /\ ~canCreateJobAsBypassRole(caller.role)
         THEN IF ~isAlumniRole(caller.role) THEN "403" ELSE "verify"
    ELSE "insert"
AuthoringGate(type, caller) ==
    LET normalizedType == upperType(type)
    IN  IF normalizedType \in {"ANNOUNCEMENT", "JOB"} /\ caller.id = NoUser THEN "401"
        ELSE IF normalizedType = "ANNOUNCEMENT" /\ ~canCreateAnnouncement(caller.role) THEN "403"
        ELSE IF normalizedType = "JOB" /\ ~canCreateJobAsBypassRole(caller.role)
             THEN IF ~isAlumniRole(caller.role) THEN "403" ELSE "verify"
        ELSE "insert"

\* payload.postFields.author_id = requestUser.id for ANNOUNCEMENT and JOB
\* (KeepClientAuthor: the fields as the client sent them)
KeepClientAuthor(type, caller, fields) == fields
ForceAuthor(type, caller, fields) ==
    IF upperType(type) \in {"ANNOUNCEMENT", "JOB"}
    THEN Put(fields, "author_id", caller.id)
    ELSE fields

\* verificationStatus !== 'approved' refuses
\* (VerificationNotRejected: a check that lets a pending application pass)
VerificationNotRejected(status) == status \in {"approved", "pending"}
VerificationPasses(status) == status = "approved"

PostsStart(p) ==
    /\ At(p, "create", "start")
    /\ LET r == req[p]
           payload == buildPostPayload(r.body, FALSE)
       IN  IF payload.errors
           THEN Reply(p, 400, "Validation failed") /\ UNCHANGED <<now, sweptIds, tables>>
           ELSE LET type == payload.postFields.type
                    gate == AuthoringGate(type, r.caller)
                    fields == ForceAuthor(type, r.caller, payload.postFields)
                IN  IF gate = "401"
                    THEN Reply(p, 401, "Authentication is required") /\ UNCHANGED <<now, sweptIds, tables>>
                    ELSE IF gate = "403"
                    THEN Reply(p, 403, "Forbidden") /\ UNCHANGED <<now, sweptIds, tables>>
                    ELSE IF gate = "verify"
                    THEN /\ UNCHANGED <<now, sweptIds, tables>>
                         /\ IF VerificationPasses(getAlumniVerificationStatus(r.caller.id))
                            THEN Goto(p, "insert", [payload |-> payload, fields |-> fields])
                            ELSE Reply(p, 403, "Only verified alumni or faculty/admin can create JOB posts.")
                    ELSE InsertPost(p, payload, fields)

\* the insert that follows the verification lookup
PostsInsert(p) ==
    /\ At(p, "create", "insert")
    /\ InsertPost(p, req[p].payload, req[p].fields)


\* ------------------------------------------------- tags and reference steps
\* The steps replacePostTags and replacePostRef take, for POST /posts and for
\* PATCH /posts/:id alike.
Writing(p, pc) == req[p].op \in {"create", "update"} /\ req[p].pc = pc

SlugsOf(names) == {slugify(n) : n \in names}
SlugCollision(names) == \E a, b \in names : a # b /\ slugify(a) = slugify(b)

\* .upsert(upsertPayload, { onConflict: 'slug' }): a row whose slug exists
\* keeps its id and takes the new name; any other slug gets a new row.
\* (UpsertTagsKeepName: the upsert with ignoreDuplicates, which leaves a row
\* whose slug exists as it is)
UpsertTagsKeepName(rows, names) ==
    LET slugs == SlugsOf(names)
        fresh == slugs \ {t.slug : t \in rows}
        base == Cardinality(rows)
        idOf == CHOOSE f \in [fresh -> (base + 1)..(base + Cardinality(fresh))] :
                    \A a, b \in fresh : a # b => f[a] # f[b]
    IN  rows \cup {[id |-> idOf[sl], name |-> CHOOSE n \in names : slugify(n) = sl, slug |-> sl]
                   : sl \in fresh}
UpsertTags(rows, names) ==
    LET slugs == SlugsOf(names)
        known == {t.slug : t \in rows}
        fresh == slugs \ known
        base == Cardinality(rows)
        idOf == CHOOSE f \in [fresh -> (base + 1)..(base + Cardinality(fresh))] :
                    \A a, b \in fresh : a # b => f[a] # f[b]
        nameOf(sl) == CHOOSE n \in names : slugify(n) = sl
    IN  {t \in rows : t.slug \notin slugs}
        \cup {[id |-> t.id, name |-> nameOf(t.slug), slug |-> t.slug] : t \in {u \in rows : u.slug \in slugs}}
        \cup {[id |-> idOf[sl], name |-> nameOf(sl), slug |-> sl] : sl \in fresh}

\* ensureTagsExist(tagNames)
TagsEnsure(p) ==
    /\ Writing(p, "tags_ensure")
    /\ LET names == req[p].payload.tagNames
       IN  IF SlugCollision(names)
           THEN Reply(p, 500, "upsert failed") /\ tags' = tags
           ELSE /\ tags' = UpsertTags(tags, names)
                /\ Goto(p, "tags_delete",
                        [ensuredIds |-> {t.id : t \in {u \in UpsertTags(tags, names) :
                                                         u.slug \in SlugsOf(names)}}])
    /\ UNCHANGED <<now, notifications, comments, sweptIds, posts, postTags, postRefs, postVotes, applications>>

mergedTagIds(r) == r.payload.tagIds \cup Get(r, "ensuredIds", {})

\* .delete().eq('post_id', postId) on post_tags
TagsDelete(p) ==
    /\ Writing(p, "tags_delete")
    /\ postTags' = {l \in postTags : l.post_id # req[p].postId}
    /\ Goto(p, IF mergedTagIds(req[p]) = {} THEN AfterTagsPc(req[p]) ELSE "tags_insert", <<>>)
    /\ UNCHANGED <<now, notifications, comments, sweptIds, posts, tags, postRefs, postVotes, applications>>

\* .insert(rows) on post_tags: the foreign key on tag_id and the primary key
\* (post_id, tag_id) reject the whole statement.
TagsInsert(p) ==
    /\ Writing(p, "tags_insert")
    /\ LET rows == {[post_id |-> req[p].postId, tag_id |-> t] : t \in mergedTagIds(req[p])}
       IN  IF (\E t \in mergedTagIds(req[p]) : t \notin {u.id : u \in tags}) \/ rows \cap postTags # {}
           THEN Reply(p, 500, "insert failed") /\ postTags' = postTags
           ELSE postTags' = postTags \cup rows /\ Goto(p, AfterTagsPc(req[p]), <<>>)
    /\ UNCHANGED <<now, notifications, comments, sweptIds, posts, tags, postRefs, postVotes, applications>>

\* replacePostRef: .delete().eq('post_id', postId) on post_refs
RefDelete(p) ==
    /\ Writing(p, "ref_delete")
    /\ postRefs' = SelectSeq(postRefs, LAMBDA x : x.post_id # req[p].postId)
    /\ Goto(p, IF req[p].payload.ref = NullRef THEN "read" ELSE "ref_insert", <<>>)
    /\ UNCHANGED <<now, notifications, comments, sweptIds, posts, tags, postTags, postVotes, applications>>

\* replacePostRef: .insert({ post_id, service, entity_id, metadata })
RefInsert(p) ==
    /\ Writing(p, "ref_insert")
    /\ postRefs' = Append(postRefs, [post_id |-> req[p].postId,
                                     service |-> req[p].payload.ref.service,
                                     entity_id |-> req[p].payload.ref.entity_id])
    /\ Goto(p, "read", <<>>)
    /\ UNCHANGED <<now, notifications, comments, sweptIds, posts, tags, postTags, postVotes, applications>>

mapPost(row) ==
    [id |-> row.id, type |-> row.type, title |-> row.title, summary |-> row.summary,
     authorId |-> row.author_id, status |-> row.status, pinned |-> row.pinned,
     expiresAt |-> row.expires_at]

\* attachTags for one post
TagsOfPost(postId) ==
    {t \in tags : \E l \in postTags : l.post_id = postId /\ l.tag_id = t.id}

RefsOfPost(postId) == SelectSeq(postRefs, LAMBDA x : x.post_id = postId)

\* getPostById(postId, { requestUserId })
getPostById(postId, requestUserId) ==
    Merge(mapPost(posts[postId]),
          Merge([tags |-> TagsOfPost(postId), refs |-> RefsOfPost(postId)],
                getVoteSummary(postId, requestUserId)))

\* the final getPostById and the response of POST /posts and PATCH /posts/:id
PostsRead(p) ==
    /\ Writing(p, "read")
    /\ Reply(p, req[p].okStatus, getPostById(req[p].postId, NoUser))
    /\ UNCHANGED <<now, sweptIds, tables>>

\* --------------------------------------------------------- PATCH /posts/:id
\* .update(payload.postFields).eq('id', id), or the existence check when the
\* request carries no post field
\* (ApplyUpdateArchivedFinal: an update that refuses to move a post out of archived)
ApplyUpdateArchivedFinal(p, payload) ==
    LET id == req[p].postId
        fields == payload.postFields
        next == [payload |-> payload, okStatus |-> 200]
    IN  IF ~PostExists(id)
        THEN Reply(p, 404, "Post not found") /\ UNCHANGED <<now, sweptIds, tables>>
        ELSE IF DOMAIN fields = {}
        THEN Goto(p, AfterRowPc(next), next) /\ UNCHANGED <<now, sweptIds, tables>>
        ELSE IF Has(fields, "status") /\ (fields.status \notin StatusValues \/ posts[id].status = "archived")
        THEN Reply(p, 500, "update failed") /\ UNCHANGED <<now, sweptIds, tables>>
        ELSE /\ posts' = [posts EXCEPT ![id] = Merge(@, fields)]
             /\ Goto(p, AfterRowPc(next), next)
             /\ UNCHANGED <<now, notifications, comments, sweptIds, tags, postTags, postRefs, postVotes, applications>>
ApplyUpdate(p, payload) ==
    LET id == req[p].postId
        fields == payload.postFields
        next == [payload |-> payload, okStatus |-> 200]
    IN  IF ~PostExists(id)
        THEN Reply(p, 404, "Post not found") /\ UNCHANGED <<now, sweptIds, tables>>
        ELSE IF DOMAIN fields = {}
        THEN Goto(p, AfterRowPc(next), next) /\ UNCHANGED <<now, sweptIds, tables>>
        ELSE IF Has(fields, "status") /\ fields.status \notin StatusValues
        THEN Reply(p, 500, "update failed") /\ UNCHANGED <<now, sweptIds, tables>>
        ELSE /\ posts' = [posts EXCEPT ![id] = Merge(@, fields)]
             /\ Goto(p, AfterRowPc(next), next)
             /\ UNCHANGED <<now, notifications, comments, sweptIds, tags, postTags, postRefs, postVotes, applications>>

\* getPostAuthorId(postId): null for a missing post and for a null author_id
getPostAuthorId(postId) == IF PostExists(postId) THEN posts[postId].author_id ELSE NoUser

\* (UpdateStartNoExpiryGate: the handler without its isExpiryUpdate block)
UpdateStartNoExpiryGate(p) ==
    /\ At(p, "update", "start")
    /\ LET payload == buildPostPayload(req[p].body, TRUE)
       IN  IF payload.errors
           THEN Reply(p, 400, "Validation failed") /\ UNCHANGED <<now, sweptIds, tables>>
           ELSE IF DOMAIN payload.postFields = {} /\ ~payload.tagsProvided /\ ~payload.refProvided
           THEN Reply(p, 400, "No supported fields provided for update") /\ UNCHANGED <<now, sweptIds, tables>>
           ELSE ApplyUpdate(p, payload)
UpdateStart(p) ==
    /\ At(p, "update", "start")
    /\ LET r == req[p]
           payload == buildPostPayload(r.body, TRUE)
           isExpiryUpdate == Has(payload.postFields, "expires_at")
       IN  IF payload.errors
           THEN Reply(p, 400, "Validation failed") /\ UNCHANGED <<now, sweptIds, tables>>
           ELSE IF DOMAIN payload.postFields = {} /\ ~payload.tagsProvided /\ ~payload.refProvided
           THEN Reply(p, 400, "No supported fields provided for update") /\ UNCHANGED <<now, sweptIds, tables>>
           ELSE IF isExpiryUpdate /\ r.caller.id = NoUser
           THEN Reply(p, 401, "Authentication is required to update expiry.")
                /\ UNCHANGED <<now, sweptIds, tables>>
           ELSE IF isExpiryUpdate /\ ~isModeratorRole(r.caller.role)
           THEN /\ UNCHANGED <<now, sweptIds, tables>>
                /\ IF getPostAuthorId(r.postId) = NoUser THEN Reply(p, 404, "Post not found")
                   ELSE IF getPostAuthorId(r.postId) # r.caller.id
                   THEN Reply(p, 403, "Only moderators and the original author can update expiry.")
                   ELSE Goto(p, "write", [payload |-> payload])
           ELSE ApplyUpdate(p, payload)

\* the update that follows the author lookup
UpdateWrite(p) ==
    /\ At(p, "update", "write")
    /\ ApplyUpdate(p, req[p].payload)

\* ------------------------------------------------------------------ sweep
\* .lt('expires_at', nowIso).neq('status', 'archived'): NULL never matches
\* (SweepMatchesAll: the match without .neq('status', 'archived'))
SweepMatchesAll(row, nowIso) == row.expires_at # NullTime /\ row.expires_at < nowIso
SweepMatches(row, nowIso) ==
    row.expires_at # NullTime /\ row.expires_at < nowIso /\ row.status # "archived"

\* archiveExpiredPosts(): the rows after the bulk update, the ids the update
\* returned (.select('id')) and their number
\* (archiveExpiringPosts: the same with .lte in place of .lt)
archiveExpiringPosts(rows, nowIso) ==
    LET ids == {i \in 1..Len(rows) : rows[i].expires_at # NullTime /\ rows[i].expires_at <= nowIso
                                     /\ rows[i].status # "archived"}
    IN  [posts |-> [i \in 1..Len(rows) |->
                        IF i \in ids THEN [rows[i] EXCEPT !.status = "archived"] ELSE rows[i]],
         ids |-> ids,
         archivedCount |-> Cardinality(ids)]
archiveExpiredPosts(rows, nowIso) ==
    LET ids == {i \in 1..Len(rows) : SweepMatches(rows[i], nowIso)}
    IN  [posts |-> [i \in 1..Len(rows) |->
                        IF i \in ids THEN [rows[i] EXCEPT !.status = "archived"] ELSE rows[i]],
         ids |-> ids,
         archivedCount |-> Cardinality(ids)]

\* the background interval (CONFIG.archiveIntervalMs > 0)
\* (a run that matches no row changes nothing and is left out)
ArchiveTimer ==
    /\ archiveExpiredPosts(posts, now).ids # {}
    /\ posts' = archiveExpiredPosts(posts, now).posts
    /\ sweptIds' = sweptIds \cup archiveExpiredPosts(posts, now).ids
    /\ UNCHANGED <<now, notifications, comments, tags, postTags, postRefs, postVotes, applications, req, out>>

\* POST /internal/archive-expired
InternalArchive(p) ==
    /\ At(p, "archive", "start")
    /\ posts' = archiveExpiredPosts(posts, now).posts
    /\ sweptIds' = sweptIds \cup archiveExpiredPosts(posts, now).ids
    /\ Reply(p, 200, [archivedCount |-> archiveExpiredPosts(posts, now).archivedCount])
    /\ UNCHANGED <<now, notifications, comments, tags, postTags, postRefs, postVotes, applications>>


\* -------------------------------------------------------------- GET /feed
\* A query is a record holding the parameters the client sent; the request
\* slots carry no limit or offset, so the page is the first 20 posts, which
\* is every post of a table of MaxPosts rows.
lowerStatus(text) == CASE text = "ALL" -> "all" [] text = "Published" -> "published" [] OTHER -> text

\* the sweep at the start of every feed read; the request keeps the time it
\* started at, which the handler never reads
\* (FeedStartNoSweep: a feed read that skips the sweep)
FeedStartNoSweep(p) ==
    /\ At(p, "feed", "start")
    /\ Goto(p, IF Get(req[p].query, "tag", <<>>) # <<>> THEN "tag_rows" ELSE "query",
            [archivedCount |-> 0, startedAt |-> now])
    /\ UNCHANGED <<now, sweptIds, tables>>
FeedStart(p) ==
    /\ At(p, "feed", "start")
    /\ posts' = archiveExpiredPosts(posts, now).posts
    /\ sweptIds' = sweptIds \cup archiveExpiredPosts(posts, now).ids
    /\ Goto(p, IF Get(req[p].query, "tag", <<>>) # <<>> THEN "tag_rows" ELSE "query",
            [archivedCount |-> archiveExpiredPosts(posts, now).archivedCount,
             startedAt |-> now])
    /\ UNCHANGED <<now, notifications, comments, tags, postTags, postRefs, postVotes, applications>>

\* resolveTagFilterPostIds, the tags query:
\* .or(`slug.eq.${slugify(tagFilter)},name.ilike.%${sanitizeSearchTerm(tagFilter)}%`)
TagMatchesFilter(t, tagFilter) ==
    t.slug = slugify(tagFilter) \/ ilikeContains(t.name, sanitizeSearchTerm(tagFilter))

EmptyPage(r) == [data |-> {}, total |-> 0, archivedDuringRequest |-> r.archivedCount]

FeedTagRows(p) ==
    /\ At(p, "feed", "tag_rows")
    /\ LET tagIds == {t.id : t \in {u \in tags : TagMatchesFilter(u, req[p].query.tag)}}
       IN  IF tagIds = {} THEN Reply(p, 200, EmptyPage(req[p]))
           ELSE Goto(p, "tag_links", [tagIds |-> tagIds])
    /\ UNCHANGED <<now, sweptIds, tables>>

\* resolveTagFilterPostIds, the post_tags query: .in('tag_id', tagIds)
FeedTagLinks(p) ==
    /\ At(p, "feed", "tag_links")
    /\ LET postIds == {l.post_id : l \in {k \in postTags : k.tag_id \in req[p].tagIds}}
       IN  IF postIds = {} THEN Reply(p, 200, EmptyPage(req[p]))
           ELSE Goto(p, "query", [tagFilteredPostIds |-> postIds])
    /\ UNCHANGED <<now, sweptIds, tables>>

\* the status filter of the posts query
\* (StatusFilterAllShowsArchived: status=all read as every status)
StatusFilterAllShowsArchived(row, status, includeArchived) ==
    IF status # "" /\ status # "all" THEN row.status = status
    ELSE IF status = "" /\ ~includeArchived THEN row.status = "published"
    ELSE TRUE
StatusFilter(row, status, includeArchived) ==
    IF status # "" /\ status # "all" THEN row.status = status
    ELSE IF status = "" /\ ~includeArchived THEN row.status = "published"
    ELSE IF status = "all" /\ ~includeArchived THEN row.status # "archived"
    ELSE TRUE

TagFilter(r, row) == Has(r, "tagFilteredPostIds") => row.id \in r.tagFilteredPostIds

\* the filters of the posts query
\* (FeedRowMatchesAnyStatus: the query without its status filter)
FeedRowMatchesAnyStatus(r, row) ==
    LET q == r.query
    IN  /\ (parseBool(Get(q, "pinnedOnly", ""), FALSE) => row.pinned)
        /\ (Get(q, "type", "") # "" => row.type = q.type)
        /\ (Get(q, "authorId", NoUser) # NoUser => row.author_id = q.authorId)
        /\ TagFilter(r, row)
FeedRowMatches(r, row) ==
    LET q == r.query
    IN  /\ StatusFilter(row, lowerStatus(Get(q, "status", "")),
                        parseBool(Get(q, "includeArchived", ""), FALSE))
        /\ (parseBool(Get(q, "pinnedOnly", ""), FALSE) => row.pinned)
        /\ (Get(q, "type", "") # "" => row.type = q.type)
        /\ (Get(q, "authorId", NoUser) # NoUser => row.author_id = q.authorId)
        /\ TagFilter(r, row)

\* the posts query and the response
FeedQuery(p) ==
    /\ At(p, "feed", "query")
    /\ LET rows == {posts[i] : i \in {j \in 1..Len(posts) : FeedRowMatches(req[p], posts[j])}}
       IN  Reply(p, 200, [data |-> {mapPost(row) : row \in rows},
                          total |-> Cardinality(rows),
                          archivedDuringRequest |-> req[p].archivedCount])
    /\ UNCHANGED <<now, sweptIds, tables>>

\* ------------------------------------------------------------- POST /tags
\* (requests carry a name and no slug of their own)
TagsCreate(p) ==
    /\ At(p, "tag", "start")
    /\ LET name == trim(req[p].name)
           slug == slugify(name)
       IN  IF name = <<>> THEN Reply(p, 400, "name is required") /\ tags' = tags
           ELSE IF slug = <<>> THEN Reply(p, 400, "Could not generate a valid slug") /\ tags' = tags
           ELSE /\ tags' = UpsertTags(tags, {name})
                /\ Reply(p, 201, CHOOSE t \in UpsertTags(tags, {name}) : t.slug = slug)
    /\ UNCHANGED <<now, notifications, comments, sweptIds, posts, postTags, postRefs, postVotes, applications>>


\* ------------------------------------------- user service: verification
\* resolveStateFromApplications(rows): rows.find(...) takes the first match
NoApplication == [id |-> NoUser]
FirstWith(rows, status) ==
    LET idx == {i \in 1..Len(rows) : rows[i].status = status}
    IN  rows[CHOOSE i \in idx : \A j \in idx : i <= j]
\* (resolveStateFromLatest: the state of the newest row, whatever the others say)
resolveStateFromLatest(rows) ==
    IF rows = <<>>
    THEN [status |-> "not_submitted", isVerified |-> FALSE, application |-> NoApplication]
    ELSE [status |-> rows[1].status, isVerified |-> rows[1].status = "approved",
          application |-> rows[1]]
resolveStateFromApplications(rows) ==
    IF \E i \in 1..Len(rows) : rows[i].status = "approved"
    THEN [status |-> "approved", isVerified |-> TRUE, application |-> FirstWith(rows, "approved")]
    ELSE IF \E i \in 1..Len(rows) : rows[i].status = "pending"
    THEN [status |-> "pending", isVerified |-> FALSE, application |-> FirstWith(rows, "pending")]
    ELSE IF \E i \in 1..Len(rows) : rows[i].status = "rejected"
    THEN [status |-> "rejected", isVerified |-> FALSE, application |-> FirstWith(rows, "rejected")]
    ELSE [status |-> "not_submitted", isVerified |-> FALSE, application |-> NoApplication]

\* (getVerificationStateOfAll: the select without .eq('applicant_id', applicantId))
getVerificationStateOfAll(applicantId) ==
    resolveStateFromApplications(Reverse(applications))
getApplicantVerificationState(applicantId) ==
    resolveStateFromApplications(ApplicationsOf(applicantId))

\* GET /alumni-verification/me
VerificationMe(p) ==
    /\ At(p, "me", "start")
    /\ UNCHANGED <<now, sweptIds, tables>>
    /\ LET r == req[p]
           state == getApplicantVerificationState(r.caller.id)
       IN  IF r.caller.id = NoUser THEN Reply(p, 401, "Authentication required")
           ELSE IF r.caller.id \notin Users THEN Reply(p, 404, "User not found")
           ELSE IF lowerRole(RoleOf(r.caller.id)) # "alumni"
                THEN Reply(p, 403, "Only alumni accounts can request alumni verification.")
           ELSE Reply(p, 200, [status |-> state.status, isVerified |-> state.isVerified,
                               application |-> state.application])

\* POST /alumni-verification/apply: the account lookup, the role check and
\* getApplicantVerificationState
ApplyStart(p) ==
    /\ At(p, "apply", "start")
    /\ UNCHANGED <<now, sweptIds, tables>>
    /\ LET r == req[p]
           state == getApplicantVerificationState(r.caller.id).status
       IN  IF r.caller.id = NoUser THEN Reply(p, 401, "Authentication required")
           ELSE IF r.caller.id \notin Users THEN Reply(p, 404, "User not found")
           ELSE IF lowerRole(RoleOf(r.caller.id)) # "alumni"
                THEN Reply(p, 403, "Only alumni accounts can submit verification applications.")
           ELSE IF state = "approved" THEN Reply(p, 409, "Your alumni account is already verified.")
           ELSE IF state = "pending" THEN Reply(p, 409, "You already have a pending application.")
           ELSE Goto(p, "insert", <<>>)

\* .insert({ applicant_id, ..., status: 'pending' })
ApplyInsert(p) ==
    /\ At(p, "apply", "insert")
    /\ Len(applications) < MaxApps
    /\ applications' = Append(applications,
                              [id |-> Len(applications) + 1, applicant_id |-> req[p].caller.id,
                               status |-> "pending", review_note |-> "", reviewed_by |-> NoUser])
    /\ Reply(p, 201, [id |-> Len(applications) + 1, status |-> "pending"])
    /\ UNCHANGED <<now, notifications, comments, sweptIds, posts, tags, postTags, postRefs, postVotes>>

\* PATCH /notifications/alumni-verifications/:id: ensureAuthenticated,
\* ensureModerator, the action check and the lookup of the application
ReviewStart(p) ==
    /\ At(p, "review", "start")
    /\ UNCHANGED <<now, sweptIds, tables>>
    /\ LET r == req[p]
       IN  IF r.caller.id = NoUser THEN Reply(p, 401, "Authentication required")
           ELSE IF ~isModeratorRole(r.caller.role)
                THEN Reply(p, 403, "Only faculty/admin can access this route.")
           ELSE IF r.action \notin {"approve", "reject"}
                THEN Reply(p, 400, "action must be approve or reject")
           ELSE IF r.id \notin 1..Len(applications)
                THEN Reply(p, 404, "Verification application not found")
           ELSE Goto(p, "update", <<>>)

\* .update({ status: nextStatus, ... }).eq('id', requestId)
ReviewUpdate(p) ==
    /\ At(p, "review", "update")
    /\ LET r == req[p]
           nextStatus == IF r.action = "approve" THEN "approved" ELSE "rejected"
       IN  /\ applications' = [applications EXCEPT ![r.id] =
                   [@ EXCEPT !.status = nextStatus, !.review_note = "", !.reviewed_by = r.caller.id]]
           /\ IF nextStatus = "approved"
              THEN Goto(p, "supersede", [applicantId |-> applications[r.id].applicant_id])
              ELSE Reply(p, 200, [id |-> r.id, status |-> nextStatus])
    /\ UNCHANGED <<now, notifications, comments, sweptIds, posts, tags, postTags, postRefs, postVotes>>

\* .update({ status: 'rejected', review_note: 'Superseded ...' })
\*   .eq('applicant_id', ...).eq('status', 'pending').neq('id', updated.id)
ReviewSupersede(p) ==
    /\ At(p, "review", "supersede")
    /\ LET r == req[p]
       IN  /\ applications' = [i \in 1..Len(applications) |->
                   IF /\ applications[i].applicant_id = r.applicantId
                      /\ applications[i].status = "pending"
                      /\ i # r.id
                   THEN [applications[i] EXCEPT !.status = "rejected",
                                                !.review_note = "Superseded by an approved verification.",
                                                !.reviewed_by = r.caller.id]
                   ELSE applications[i]]
           /\ Reply(p, 200, [id |-> r.id, status |-> "approved"])
    /\ UNCHANGED <<now, notifications, comments, sweptIds, posts, tags, postTags, postRefs, postVotes>>

\* ------------------------------------------- user service: notifications
\* normalizeTimestamp(value): null for a missing value, an error for a
\* string Date cannot parse
normalizeTimestamp(value) ==
    IF value = NullTime THEN [error |-> FALSE, value |-> NullTime]
    ELSE IF value = BadDate THEN [error |-> TRUE, value |-> NullTime]
    ELSE [error |-> FALSE, value |-> value]

\* laterIso(a, b)
laterIso(a, b) ==
    IF a = NullTime THEN b
    ELSE IF b = NullTime THEN a
    ELSE IF a >= b THEN a ELSE b

ReadKeysOf(userId) == {x.notification_key : x \in {y \in notificationReads : y.user_id = userId}}

\* POST /notifications/state/mark-read: ensureAuthenticated, the validation
\* of the body and, for a request with a timestamp, the select of the stored
\* state
MarkReadStart(p) ==
    /\ At(p, "markRead", "start")
    /\ UNCHANGED <<now, sweptIds, tables>>
    /\ LET r == req[p]
           parsedTimestamp == normalizeTimestamp(Get(r.body, "lastSeenAt", NullTime))
           notificationKey == Get(r.body, "notificationKey", "")
       IN  IF r.caller.id = NoUser THEN Reply(p, 401, "Authentication required")
           ELSE IF parsedTimestamp.error THEN Reply(p, 400, "Invalid timestamp")
           ELSE IF notificationKey = "" /\ parsedTimestamp.value = NullTime
                THEN Reply(p, 400, "Provide lastSeenAt or notificationKey")
           ELSE IF parsedTimestamp.value # NullTime
                THEN Goto(p, "state_upsert", [requestedLastSeen |-> parsedTimestamp.value,
                                              notificationKey |-> notificationKey,
                                              existingState |-> notificationStates[r.caller.id]])
           ELSE Goto(p, "read_upsert", [notificationKey |-> notificationKey])

\* .upsert({ user_id, last_seen_at: finalLastSeenAt }, { onConflict: 'user_id' })
MarkReadStateUpsert(p) ==
    /\ At(p, "markRead", "state_upsert")
    /\ LET r == req[p]
           finalLastSeenAt == laterIso(r.existingState, r.requestedLastSeen)
       IN  /\ notificationStates' = [notificationStates EXCEPT ![r.caller.id] = finalLastSeenAt]
           /\ Goto(p, IF r.notificationKey # "" THEN "read_upsert" ELSE "fetch_state", <<>>)
    /\ UNCHANGED <<now, sweptIds, posts, tags, postTags, postRefs, postVotes, comments, applications,
                   notificationReads>>

\* .upsert({ user_id, notification_key }, { onConflict: 'user_id,notification_key' })
MarkReadKeyUpsert(p) ==
    /\ At(p, "markRead", "read_upsert")
    /\ notificationReads' = notificationReads
                            \cup {[user_id |-> req[p].caller.id,
                                   notification_key |-> req[p].notificationKey]}
    /\ Goto(p, "fetch_state", <<>>)
    /\ UNCHANGED <<now, sweptIds, posts, tags, postTags, postRefs, postVotes, comments, applications,
                   notificationStates>>

\* the select of the stored state for the response
MarkReadFetchState(p) ==
    /\ At(p, "markRead", "fetch_state")
    /\ Goto(p, "fetch_reads", [lastSeenAt |-> notificationStates[req[p].caller.id]])
    /\ UNCHANGED <<now, sweptIds, tables>>

\* the select of the read keys and the response
MarkReadFetchReads(p) ==
    /\ At(p, "markRead", "fetch_reads")
    /\ Reply(p, 200, [userId |-> req[p].caller.id, lastSeenAt |-> req[p].lastSeenAt,
                      readKeys |-> ReadKeysOf(req[p].caller.id)])
    /\ UNCHANGED <<now, sweptIds, tables>>


\* ========================================================= specifications
\* Each specification lets clients send the requests of one scenario.

\* ------------------------------------------------------------ vote ledger
\* Two voters vote on the first post, one of them in every direction.
VoteRequests ==
    [op : {"vote"}, caller : {Credential(2)}, postId : {1}, vote : {"up", "down", "none"}]
    \cup [op : {"vote"}, caller : {Credential(3)}, postId : {1}, vote : {"up", "sideways"}]

VotePostRequests ==
    {[op |-> "create", caller |-> NoCredential, body |-> [type |-> "EVENT", status |-> "published"]]}

NextVote ==
    \/ \E p \in Procs, r \in VoteRequests \cup VotePostRequests : Receive(p, r)
    \/ \E p \in Procs : PostsStart(p)
    \/ \E p \in Procs : PostsRead(p)
    \/ \E p \in Procs : VoteStart(p)
    \/ \E p \in Procs : VoteWrite(p)
    \/ \E p \in Procs : VoteRead(p)

SpecVote == Init /\ [][NextVote]_vars

\* C1: the vote store holds at most one row per (post, user), and every
\* stored value is +1 or -1, whatever votes were cast and however the
\* requests interleaved.
C1_VoteUniqueness ==
    /\ \A a, b \in postVotes : (a.post_id = b.post_id /\ a.user_id = b.user_id) => a = b
    /\ \A a \in postVotes : a.vote \in {1, -1}

\* a voter has changed a vote while another vote request on the same post
\* was between its check and its write
C1_Witness ==
    \E a \in postVotes, p, q \in Procs :
        /\ a.vote = -1
        /\ out.status = 200 /\ out.req.op = "vote" /\ out.req.vote = "down"
        /\ out.req.caller.id = a.user_id /\ out.req.postId = a.post_id
        /\ \E b \in postVotes : b.post_id = a.post_id /\ b.user_id # a.user_id
        /\ p # q /\ At(p, "vote", "write") /\ req[p].postId = a.post_id
        /\ req[p].caller.id = a.user_id /\ req[p].voteValue = 1

\* --------------------------------------------------------- job authoring
\* An alumni applies for verification, a moderator reviews the application,
\* and an alumni and a student try to create JOB posts in somebody else's
\* name.
JobRequests ==
    {[op |-> "apply", caller |-> Credential(2)],
     [op |-> "review", caller |-> Credential(1), id |-> 1, action |-> "approve"],
     [op |-> "review", caller |-> Credential(1), id |-> 1, action |-> "reject"],
     [op |-> "create", caller |-> Credential(2), body |-> [type |-> "JOB", authorId |-> 1]],
     [op |-> "create", caller |-> Credential(3), body |-> [type |-> "JOB", authorId |-> 1]]}

NextJob ==
    \/ \E p \in Procs, r \in JobRequests : Receive(p, r)
    \/ \E p \in Procs : ApplyStart(p)
    \/ \E p \in Procs : ApplyInsert(p)
    \/ \E p \in Procs : ReviewStart(p)
    \/ \E p \in Procs : ReviewUpdate(p)
    \/ \E p \in Procs : ReviewSupersede(p)
    \/ \E p \in Procs : PostsStart(p)
    \/ \E p \in Procs : PostsInsert(p)
    \/ \E p \in Procs : PostsRead(p)

SpecJob == Init /\ [][NextJob]_vars

IsCreateOf(r, types) ==
    r.op = "create" /\ Has(r.body, "type") /\ upperType(r.body.type) \in types

\* C2: a caller who is not a moderator gets a JOB post created only when the
\* role is alumni and the verification status the handler reads is approved:
\* with that status the request goes on to the insert, with any other status
\* (pending, rejected, not_submitted) and for any other role it is answered
\* 403 and no post row is written; and every JOB row written for a
\* non-moderator is written by a request that passed that check.
C2_JobGate ==
    [][\A p \in Procs :
        /\ ( /\ At(p, "create", "start") /\ req'[p] # req[p]
             /\ IsCreateOf(req[p], {"JOB"})
             /\ req[p].caller.id # NoUser /\ ~isModeratorRole(req[p].caller.role) )
           => IF /\ isAlumniRole(req[p].caller.role)
                 /\ getAlumniVerificationStatus(req[p].caller.id) = "approved"
              THEN req'[p].op = "create" /\ req'[p].pc = "insert" /\ posts' = posts
              ELSE /\ req'[p] = Idle /\ out'.status = 403 /\ out'.req = req[p]
                   /\ posts' = posts
        /\ ( /\ req[p].op = "create" /\ req'[p] # req[p] /\ posts' # posts
             /\ IsCreateOf(req[p], {"JOB"}) /\ ~isModeratorRole(req[p].caller.role) )
           => /\ req[p].pc = "insert" /\ isAlumniRole(req[p].caller.role)
              /\ Len(posts') = Len(posts) + 1
              /\ posts'[Len(posts')].author_id = req[p].caller.id
      ]_vars

\* the alumni, approved by now, has had a JOB post created
C2_Witness ==
    /\ out.status = 201 /\ IsCreateOf(out.req, {"JOB"})
    /\ isAlumniRole(out.req.caller.role)
    /\ getAlumniVerificationStatus(out.req.caller.id) = "approved"
    /\ posts[out.req.postId].author_id = out.req.caller.id
    /\ \E i \in 1..Len(applications) : applications[i].reviewed_by # NoUser

\* ------------------------------------------------------- authoring gate
\* Callers with and without a credential, moderators and others, try to
\* create ANNOUNCEMENT and JOB posts, with and without an authorId.
GateRequests ==
    [op : {"create"}, caller : {NoCredential, Credential(1), Credential(3), Credential(4)},
     body : {[type |-> "ANNOUNCEMENT", authorId |-> 2]}]
    \cup {[op |-> "create", caller |-> Credential(3), body |-> [type |-> "announcement"]],
          [op |-> "create", caller |-> Credential(1), body |-> [type |-> "job"]]}

NextGate ==
    \/ \E p \in Procs, r \in GateRequests : Receive(p, r)
    \/ \E p \in Procs : PostsStart(p)
    \/ \E p \in Procs : PostsRead(p)

SpecGate == Init /\ [][NextGate]_vars

\* C3: an ANNOUNCEMENT post is created only for a caller whose role is a
\* moderator role (admin or faculty): a request without a credential is
\* answered 401, a request of any other authenticated role 403, and neither
\* writes a post row; a moderator's request writes the row.
C3_AnnouncementGate ==
    [][\A p \in Procs :
        /\ ( /\ At(p, "create", "start") /\ req'[p] # req[p]
             /\ IsCreateOf(req[p], {"ANNOUNCEMENT"}) )
           => IF req[p].caller.id = NoUser
              THEN /\ req'[p] = Idle /\ out'.status = 401 /\ out'.req = req[p]
                   /\ posts' = posts
              ELSE IF lowerRole(req[p].caller.role) \notin {"admin", "faculty"}
              THEN /\ req'[p] = Idle /\ out'.status = 403 /\ out'.req = req[p]
                   /\ posts' = posts
              ELSE /\ Len(posts') = Len(posts) + 1
                   /\ upperType(posts'[Len(posts')].type) = "ANNOUNCEMENT"
                   /\ req'[p].postId = Len(posts')
        /\ ( /\ req'[p] # req[p] /\ posts' # posts
             /\ upperType(posts'[Len(posts')].type) = "ANNOUNCEMENT" )
           => /\ req[p].caller.id # NoUser
              /\ lowerRole(req[p].caller.role) \in {"admin", "faculty"}
      ]_vars

\* a student has just been refused an announcement, next to one that a
\* faculty member created
C3_Witness ==
    /\ out.status = 403 /\ IsCreateOf(out.req, {"ANNOUNCEMENT"})
    /\ out.req.caller.role = "student"
    /\ \E i \in 1..Len(posts) : posts[i].type = "ANNOUNCEMENT" /\ posts[i].author_id = 4

\* C4: every ANNOUNCEMENT or JOB post that was created carries the id of the
\* authenticated caller as its author, whatever authorId the request body
\* named and also when it named none.
C4_AuthorForced ==
    /\ \A p \in Procs :
        (IsCreateOf(req[p], {"ANNOUNCEMENT", "JOB"}) /\ Has(req[p], "postId"))
        => /\ req[p].caller.id # NoUser
           /\ posts[req[p].postId].author_id = req[p].caller.id
    /\ (IsCreateOf(out.req, {"ANNOUNCEMENT", "JOB"}) /\ out.status = 201)
        => /\ out.req.caller.id # NoUser
           /\ out.data.authorId = out.req.caller.id
           /\ posts[out.req.postId].author_id = out.req.caller.id
    /\ \A i \in 1..Len(posts) :
        upperType(posts[i].type) \in {"ANNOUNCEMENT", "JOB"} => posts[i].author_id \in Users

\* a JOB post and an ANNOUNCEMENT post exist whose requests named another
\* user as the author, and a JOB post whose request named none was answered
C4_Witness ==
    /\ out.status = 201 /\ IsCreateOf(out.req, {"JOB"}) /\ ~Has(out.req.body, "authorId")
    /\ \E i \in 1..Len(posts) : posts[i].type = "ANNOUNCEMENT" /\ posts[i].author_id = 4

\* ------------------------------------------------------------ other types
\* Callers with and without a credential create EVENT posts, with and
\* without an authorId; one request names no type.
OpenRequests ==
    {[op |-> "create", caller |-> NoCredential, body |-> [type |-> "EVENT", authorId |-> 2]],
     [op |-> "create", caller |-> NoCredential, body |-> [type |-> "event"]],
     [op |-> "create", caller |-> Credential(3), body |-> [type |-> "EVENT", authorId |-> 2]],
     [op |-> "create", caller |-> NoCredential, body |-> [authorId |-> 2]]}

NextOpen ==
    \/ \E p \in Procs, r \in OpenRequests : Receive(p, r)
    \/ \E p \in Procs : PostsStart(p)
    \/ \E p \in Procs : PostsRead(p)

SpecOpen == Init /\ [][NextOpen]_vars

IsCreateOfOther(r) ==
    /\ r.op = "create" /\ Has(r.body, "type") /\ r.body.type # ""
    /\ upperType(r.body.type) \notin {"ANNOUNCEMENT", "JOB"}

NoQuery == [k \in {} |-> ""]

SweepRequests ==
    {[op |-> "create", caller |-> NoCredential, body |-> [type |-> "EVENT", expiresAt |-> 0]],
     [op |-> "create", caller |-> NoCredential, body |-> [type |-> "EVENT", status |-> "published"]],
     [op |-> "update", caller |-> NoCredential, postId |-> 1, body |-> [status |-> "published"]],
     [op |-> "archive", caller |-> NoCredential],
     [op |-> "feed", caller |-> NoCredential, query |-> NoQuery]}

NextSweep ==
    \/ \E p \in Procs, r \in SweepRequests :
          (p = 1) = (r.op \in {"feed", "archive"}) /\ Receive(p, r)
    \/ Tick
    \/ ArchiveTimer
    \/ \E p \in Procs : InternalArchive(p)
    \/ \E p \in Procs : PostsStart(p)
    \/ \E p \in Procs : PostsRead(p)
    \/ \E p \in Procs : UpdateStart(p)
    \/ \E p \in Procs : FeedStart(p)
    \/ \E p \in Procs : FeedQuery(p)

SpecSweep == Init /\ [][NextSweep]_vars

\* a step of the sweep: of the timer, of the internal endpoint, or of a feed read
TimerStep == req' = req /\ now' = now /\ posts' # posts
SweepBy(p) == (At(p, "archive", "start") \/ At(p, "feed", "start")) /\ req'[p] # req[p]
IsSweepStep == TimerStep \/ \E p \in Procs : SweepBy(p)

\* C6: one run of the sweep sets the status of exactly the posts whose
\* expiresAt is earlier than the time of the run and whose status is draft or
\* published to archived; every other post row, every other field and every
\* other table is left as it was, and no post leaves archived.
C6_SweepEffect ==
    [][IsSweepStep =>
        /\ Len(posts') = Len(posts)
        /\ \A i \in 1..Len(posts) :
             IF /\ posts[i].expires_at # NullTime /\ posts[i].expires_at < now
                /\ posts[i].status \in {"draft", "published"}
             THEN posts'[i] = [posts[i] EXCEPT !.status = "archived"]
             ELSE posts'[i] = posts[i]
        /\ UNCHANGED <<tags, postTags, postRefs, postVotes, comments, applications>>
      ]_vars

\* the internal endpoint has just archived one expired draft and left alone
\* a published post that never expires
C6_Witness ==
    /\ out.req.op = "archive" /\ out.data.archivedCount = 1
    /\ \E i \in sweptIds : posts[i].status = "archived" /\ posts[i].expires_at < now
    /\ \E k \in 1..Len(posts) : posts[k].status = "published" /\ posts[k].expires_at = NullTime

\* C7 as stated: a post that a run of the sweep has archived is not matched,
\* modified or counted by any later run of the sweep, in any interleaving.
C7_SweptPostsNeverRetouched ==
    [][IsSweepStep => \A i \in sweptIds : posts'[i] = posts[i]]_vars

\* C7, amended: a run of the sweep, from any call site and in any
\* interleaving, leaves alone every post that is archived when it runs, the
\* archivedCount it reports is the number of rows it changed, and a second run
\* at the same clock reading with no write in between matches no row.
C7_SweepSkipsArchived ==
    [][IsSweepStep =>
        LET changed == {i \in 1..Len(posts) : posts'[i] # posts[i]}
        IN  /\ \A i \in 1..Len(posts) : posts[i].status = "archived" => i \notin changed
            /\ \A i \in changed : posts'[i].status = "archived"
            /\ \A p \in Procs :
                 /\ (SweepBy(p) /\ req[p].op = "archive")
                    => out'.data.archivedCount = Cardinality(changed)
                 /\ (SweepBy(p) /\ req[p].op = "feed")
                    => req'[p].archivedCount = Cardinality(changed)
            /\ archiveExpiredPosts(posts', now').archivedCount = 0
            /\ archiveExpiredPosts(posts', now').posts = posts'
      ]_vars

\* a run from the internal endpoint has counted no row while a post that an
\* earlier run archived was in the table
C7_Witness ==
    /\ out.req.op = "archive" /\ out.data.archivedCount = 0
    /\ \E i \in sweptIds : posts[i].status = "archived" /\ posts[i].expires_at < now

ArchiveRequests ==
    {[op |-> "create", caller |-> NoCredential, body |-> [type |-> "EVENT", status |-> "published"]],
     [op |-> "update", caller |-> NoCredential, postId |-> 1, body |-> [archive |-> TRUE]],
     [op |-> "feed", caller |-> NoCredential, query |-> NoQuery],
     [op |-> "feed", caller |-> NoCredential, query |-> [status |-> "ALL"]],
     [op |-> "feed", caller |-> NoCredential, query |-> [status |-> "all", includeArchived |-> "true"]],
     [op |-> "feed", caller |-> NoCredential, query |-> [status |-> "archived"]]}

NextArchive ==
    \/ \E p \in Procs, r \in ArchiveRequests : Receive(p, r)
    \/ \E p \in Procs : PostsStart(p)
    \/ \E p \in Procs : PostsRead(p)
    \/ \E p \in Procs : UpdateStart(p)
    \/ \E p \in Procs : FeedStart(p)
    \/ \E p \in Procs : FeedQuery(p)

SpecArchive == Init /\ [][NextArchive]_vars

\* the posts query of the feed read in slot p answers
FeedAnswers(p) == At(p, "feed", "query") /\ req'[p] # req[p]
Returned(i) == \E d \in out'.data.data : d.id = i
ArchivedIds == {i \in 1..Len(posts) : posts[i].status = "archived"}

\* PATCH {archive: true} on an existing post stores status archived
ArchivePatchArchives ==
    \A p \in Procs :
        ( /\ At(p, "update", "start") /\ req'[p] # req[p]
          /\ req[p].body = [archive |-> TRUE] /\ PostExists(req[p].postId) )
        => /\ posts'[req[p].postId] = [posts[req[p].postId] EXCEPT !.status = "archived"]
           /\ req'[p].pc = "read"

\* C9 as stated: a post archived by PATCH {archive: true} is absent from the
\* feed read with the default filter and present, with status archived, in
\* the feed read with status=all.
C9_ArchivedShownByStatusAll ==
    [][ArchivePatchArchives /\ \A p \in Procs : FeedAnswers(p) =>
          /\ req[p].query = NoQuery => \A i \in ArchivedIds : ~Returned(i)
          /\ lowerStatus(Get(req[p].query, "status", "")) = "all"
             => \A i \in ArchivedIds : mapPost(posts[i]) \in out'.data.data
      ]_vars

\* C9, amended: a post archived by PATCH {archive: true} is absent from the
\* feed read with the default filter and from the feed read with status=all;
\* it is present, with status archived, in the feed read with
\* status=all&includeArchived=true and in the feed read with status=archived.
C9_ArchiveVisibility ==
    [][ArchivePatchArchives /\ \A p \in Procs : FeedAnswers(p) =>
          LET status == lowerStatus(Get(req[p].query, "status", ""))
              includeArchived == Get(req[p].query, "includeArchived", "") = "true"
          IN  /\ (status = "" /\ ~includeArchived) => \A i \in ArchivedIds : ~Returned(i)
              /\ (status = "all" /\ ~includeArchived) => \A i \in ArchivedIds : ~Returned(i)
              /\ ((status = "all" /\ includeArchived) \/ status = "archived")
                 => \A i \in ArchivedIds : /\ mapPost(posts[i]) \in out'.data.data
                                            /\ mapPost(posts[i]).status = "archived"
      ]_vars

\* the post was archived by PATCH and the feed read with status=all has
\* answered without it
C9_Witness ==
    /\ out.req.op = "feed" /\ out.status = 200
    /\ lowerStatus(Get(out.req.query, "status", "")) = "all"
    /\ ~Has(out.req.query, "includeArchived")
    /\ out.data.data = {}
    /\ \E i \in 1..Len(posts) : posts[i].status = "archived"
    /\ \A p \in Procs : req[p] = Idle

\* ---------------------------------------------------------- tag visibility
\* The tag "Events" is created, a post is created with the tag name "events"
\* and no status, and the feed is read with tag=events, with and without
\* status=draft.
EventsName == <<"E", "v", "e", "n", "t", "s">>
EventsSlug == <<"e", "v", "e", "n", "t", "s">>
HackathonBody == [type |-> "EVENT", summary |-> "Hackathon Friday", tags |-> <<EventsSlug>>]

TagRequests ==
    {[op |-> "tag", caller |-> NoCredential, name |-> EventsName],
     [op |-> "create", caller |-> NoCredential, body |-> HackathonBody],
     [op |-> "feed", caller |-> NoCredential, query |-> [tag |-> EventsSlug]],
     [op |-> "feed", caller |-> NoCredential, query |-> [tag |-> EventsSlug, status |-> "draft"]]}

NextTag ==
    \/ \E p \in Procs, r \in TagRequests : Receive(p, r)
    \/ \E p \in Procs : TagsCreate(p)
    \/ \E p \in Procs : PostsStart(p)
    \/ \E p \in Procs : TagsEnsure(p)
    \/ \E p \in Procs : TagsDelete(p)
    \/ \E p \in Procs : TagsInsert(p)
    \/ \E p \in Procs : PostsRead(p)
    \/ \E p \in Procs : FeedStart(p)
    \/ \E p \in Procs : FeedTagRows(p)
    \/ \E p \in Procs : FeedTagLinks(p)
    \/ \E p \in Procs : FeedQuery(p)

SpecTag == Init /\ [][NextTag]_vars

\* the posts that carry the tag of slug "events"
EventsPostIds ==
    {i \in 1..Len(posts) : \E t \in tags, l \in postTags :
        t.slug = EventsSlug /\ l.tag_id = t.id /\ l.post_id = i}

\* the create request of the scenario has been answered 201 with the tag
HackathonCreated(i) ==
    /\ i \in EventsPostIds
    /\ posts[i].type = "EVENT" /\ posts[i].summary = "Hackathon Friday"
    /\ \A p \in Procs : ~(req[p].op = "create" /\ Get(req[p], "postId", 0) = i)

\* C10 as stated: the post created from {type: EVENT, summary: "Hackathon
\* Friday", tags: ["events"]} is returned by the feed read with tag=events
\* that the tag filter resolved it for.
C10_TaggedPostInTagFeed ==
    [][\A p \in Procs :
        (FeedAnswers(p) /\ req[p].query = [tag |-> EventsSlug])
        => \A i \in req[p].tagFilteredPostIds : HackathonCreated(i) => Returned(i)
      ]_vars

\* C10, amended: that post is stored as a draft and carries the tag "events";
\* the feed read with tag=events, whose default status filter is published,
\* does not return it, and the feed read with tag=events&status=draft does.
C10_TaggedDraftVisibility ==
    [][\A p \in Procs :
        /\ ( /\ At(p, "create", "start") /\ req'[p] # req[p]
             /\ req[p].body = HackathonBody )
           => /\ Len(posts') = Len(posts) + 1
              /\ posts'[Len(posts')].status = "draft"
              /\ posts'[Len(posts')].summary = "Hackathon Friday"
        /\ ( /\ At(p, "create", "read") /\ req'[p] # req[p]
             /\ req[p].body = HackathonBody )
           => /\ out'.status = 201 /\ out'.data.status = "draft"
              /\ \E t \in out'.data.tags : t.slug = EventsSlug
              /\ req[p].postId \in EventsPostIds
        /\ (FeedAnswers(p) /\ req[p].query = [tag |-> EventsSlug])
           => \A i \in req[p].tagFilteredPostIds : posts[i].status = "draft" => ~Returned(i)
        /\ (FeedAnswers(p) /\ req[p].query = [tag |-> EventsSlug, status |-> "draft"])
           => \A i \in req[p].tagFilteredPostIds :
                (i \in 1..Len(posts) /\ posts[i].status = "draft")
                => mapPost(posts[i]) \in out'.data.data
      ]_vars

\* the post exists with its tag and the feed read with tag=events has
\* answered with an empty page after resolving the tag to that post
C10_Witness ==
    /\ out.req.op = "feed" /\ out.status = 200
    /\ out.req.query = [tag |-> EventsSlug]
    /\ Has(out.req, "tagFilteredPostIds")
    /\ out.data.data = {}
    /\ \E i \in out.req.tagFilteredPostIds : HackathonCreated(i) /\ posts[i].status = "draft"
    /\ \E t \in tags : t.slug = EventsSlug

\* ---------------------------------------------------------- status filter
\* A draft and a published post are created and the first post is archived
\* while the feed is read without parameters, with status=draft, with
\* status=Published and with includeArchived=true.  The first slot serves the
\* reads, the other slots the writes.
FilterRequests ==
    {[op |-> "create", caller |-> NoCredential, body |-> [type |-> "EVENT"]],
     [op |-> "create", caller |-> NoCredential, body |-> [type |-> "EVENT", status |-> "published"]],
     [op |-> "update", caller |-> NoCredential, postId |-> 1, body |-> [archive |-> TRUE]],
     [op |-> "feed", caller |-> NoCredential, query |-> NoQuery],
     [op |-> "feed", caller |-> NoCredential, query |-> [status |-> "draft"]],
     [op |-> "feed", caller |-> NoCredential, query |-> [status |-> "Published"]],
     [op |-> "feed", caller |-> NoCredential, query |-> [includeArchived |-> "true"]]}

NextFilter ==
    \/ \E p \in Procs, r \in FilterRequests : (p = 1) = (r.op = "feed") /\ Receive(p, r)
    \/ \E p \in Procs : PostsStart(p)
    \/ \E p \in Procs : PostsRead(p)
    \/ \E p \in Procs : UpdateStart(p)
    \/ \E p \in Procs : FeedStart(p)
    \/ \E p \in Procs : FeedQuery(p)

SpecFilter == Init /\ [][NextFilter]_vars

PostsOfStatus(status) ==
    {mapPost(posts[i]) : i \in {j \in 1..Len(posts) : posts[j].status = status}}

\* C11: a feed read that passes neither a status nor includeArchived returns
\* the published posts and no other; a feed read that passes a status other
\* than "all" returns the posts of exactly that status (compared in lower
\* case) and no other.
C11_DefaultStatusFilter ==
    [][\A p \in Procs : FeedAnswers(p) =>
          LET q == req[p].query
              status == lowerStatus(Get(q, "status", ""))
          IN  /\ (~Has(q, "status") /\ ~Has(q, "includeArchived"))
                 => out'.data.data = PostsOfStatus("published")
              /\ (Has(q, "status") /\ status \notin {"", "all"})
                 => out'.data.data = PostsOfStatus(status)
      ]_vars

\* the table holds an archived and a published post and the feed read
\* without parameters has returned one post
C11_Witness ==
    /\ out.req.op = "feed" /\ out.status = 200 /\ out.req.query = NoQuery
    /\ Cardinality(out.data.data) = 1
    /\ \E i, j \in 1..Len(posts) : posts[i].status = "archived" /\ posts[j].status = "published"

\* ------------------------------------------------- votes and archived posts
\* A published post that expires at time 0 is created; a user votes up and
\* takes the vote back while a PATCH archives the post and the background
\* sweep runs.
FrozenRequests ==
    {[op |-> "create", caller |-> NoCredential,
      body |-> [type |-> "EVENT", status |-> "published", expiresAt |-> 0]],
     [op |-> "update", caller |-> NoCredential, postId |-> 1, body |-> [archive |-> TRUE]],
     [op |-> "vote", caller |-> Credential(2), postId |-> 1, vote |-> "up"],
     [op |-> "vote", caller |-> Credential(2), postId |-> 1, vote |-> "none"]}

NextFrozen ==
    \/ \E p \in Procs, r \in FrozenRequests : Receive(p, r)
    \/ Tick
    \/ ArchiveTimer
    \/ \E p \in Procs : PostsStart(p)
    \/ \E p \in Procs : PostsRead(p)
    \/ \E p \in Procs : UpdateStart(p)
    \/ \E p \in Procs : VoteStart(p)
    \/ \E p \in Procs : VoteWrite(p)
    \/ \E p \in Procs : VoteRead(p)

SpecFrozen == Init /\ [][NextFrozen]_vars

VotesOn(votes, postId) == {v \in votes : v.post_id = postId}

\* C12: no step inserts, overwrites or deletes a vote row of a post that is
\* archived when the step is taken, whatever sweep or archive update the vote
\* request interleaved with.
C12_NoVoteWriteWhileArchived ==
    [][\A i \in 1..Len(posts) :
          posts[i].status = "archived" => VotesOn(postVotes', i) = VotesOn(postVotes, i)
      ]_vars

\* a vote request on the archived post has been answered 400 and the vote
\* store holds a row of that post
C12_Witness ==
    /\ out.req.op = "vote" /\ out.status = 400
    /\ out.data = "Archived posts cannot be voted on."
    /\ PostExists(out.req.postId) /\ posts[out.req.postId].status = "archived"
    /\ VotesOn(postVotes, out.req.postId) # {}

\* ------------------------------------------------------ algebra of votes
\* the write of a vote request: slot p runs its delete or upsert
VoteWrites(p) == At(p, "vote", "write") /\ req'[p] # req[p]
VoteRowOf(p, value) == [post_id |-> req[p].postId, user_id |-> req[p].caller.id, vote |-> value]
Counts(postId) ==
    [k \in {"score", "upvoteCount", "downvoteCount"} |-> getVoteSummary(postId, NoUser)[k]]
OthersVotes(p) ==
    {v \in postVotes : ~(v.post_id = req[p].postId /\ v.user_id = req[p].caller.id)}

\* C13: when a user whose stored vote on a post is d (up or down) votes d on
\* that post again, the post's score, upvoteCount and downvoteCount after the
\* second write equal their values after the first.
C13_VoteIdempotent ==
    [][\A p \in Procs :
          (VoteWrites(p) /\ req[p].voteValue # 0 /\ VoteRowOf(p, req[p].voteValue) \in postVotes)
          => /\ Counts(req[p].postId)' = Counts(req[p].postId)
             /\ postVotes' = postVotes
      ]_vars

\* user 2 has voted up twice on a post user 3 voted on as well: the second
\* request is answered with the counts of the first
C13_Witness ==
    /\ out.req.op = "vote" /\ out.status = 200 /\ out.req.vote = "up" /\ out.req.caller.id = 2
    /\ out.data.score = 2 /\ out.data.upvoteCount = 2 /\ out.data.userVote = "up"
    /\ \E p \in Procs : /\ At(p, "vote", "read") /\ req[p].vote = "up"
                        /\ req[p].caller.id = 2 /\ req[p].postId = out.req.postId

\* C14: when a user whose stored vote on a post is up votes down, the write
\* lowers the post's score by 2, its upvoteCount by 1, raises its
\* downvoteCount by 1 and leaves every other user's vote as it was.
C14_VoteFlip ==
    [][\A p \in Procs :
          (VoteWrites(p) /\ req[p].voteValue = -1 /\ VoteRowOf(p, 1) \in postVotes)
          => /\ Counts(req[p].postId)'.score = Counts(req[p].postId).score - 2
             /\ Counts(req[p].postId)'.upvoteCount = Counts(req[p].postId).upvoteCount - 1
             /\ Counts(req[p].postId)'.downvoteCount = Counts(req[p].postId).downvoteCount + 1
             /\ OthersVotes(p)' = OthersVotes(p)
             /\ getVoteSummary(req[p].postId, req[p].caller.id)'.userVote = "down"
      ]_vars

\* user 2 has flipped an up vote to down on a post user 3 voted up: score 0
C14_Witness ==
    /\ out.req.op = "vote" /\ out.status = 200 /\ out.req.vote = "down" /\ out.req.caller.id = 2
    /\ out.data.score = 0 /\ out.data.upvoteCount = 1 /\ out.data.downvoteCount = 1
    /\ out.data.userVote = "down"

\* C15: the write of a "none" vote removes the caller's row of the post when
\* there is one and no other row; the post's score, upvoteCount and
\* downvoteCount are then those of the other users' votes alone, as before the
\* caller voted, and the caller's userVote is null.  Without a row the write
\* changes nothing, and in both cases the request is answered 200.
C15_VoteRemoval ==
    [][\A p \in Procs :
          /\ (VoteWrites(p) /\ req[p].voteValue = 0)
             => /\ postVotes' = OthersVotes(p)
                /\ OthersVotes(p)' = OthersVotes(p)
                /\ getVoteSummary(req[p].postId, req[p].caller.id)'.userVote = "null"
                /\ req'[p].pc = "read"
                /\ (\A v \in {1, -1} : VoteRowOf(p, v) \notin postVotes) => postVotes' = postVotes
                /\ \A v \in {1, -1} : VoteRowOf(p, v) \in postVotes =>
                      /\ Counts(req[p].postId)'.score = Counts(req[p].postId).score - v
                      /\ Counts(req[p].postId)'.upvoteCount + Counts(req[p].postId)'.downvoteCount
                         = Counts(req[p].postId).upvoteCount + Counts(req[p].postId).downvoteCount - 1
          /\ (At(p, "vote", "read") /\ req'[p] # req[p]) => out'.status = 200
      ]_vars

\* user 2 has taken a vote back on a post user 3 voted up: the answer shows
\* user 3's vote alone
C15_Witness ==
    /\ out.req.op = "vote" /\ out.status = 200 /\ out.req.vote = "none" /\ out.req.caller.id = 2
    /\ out.data.score = 1 /\ out.data.upvoteCount = 1 /\ out.data.downvoteCount = 0
    /\ out.data.userVote = "null"
    /\ postVotes = {[post_id |-> out.req.postId, user_id |-> 3, vote |-> 1]}

\* ------------------------------------------------- verification reviews
\* Two alumni apply; two moderators review the first application, one to
\* approve and one to reject it, and the second application is approved.
ReviewRequests ==
    {[op |-> "apply", caller |-> Credential(2)],
     [op |-> "apply", caller |-> Credential(5)],
     [op |-> "review", caller |-> Credential(1), id |-> 1, action |-> "approve"],
     [op |-> "review", caller |-> Credential(4), id |-> 1, action |-> "reject"],
     [op |-> "review", caller |-> Credential(1), id |-> 2, action |-> "approve"]}

NextReview ==
    \/ \E p \in Procs, r \in ReviewRequests : Receive(p, r)
    \/ \E p \in Procs : ApplyStart(p)
    \/ \E p \in Procs : ApplyInsert(p)
    \/ \E p \in Procs : ReviewStart(p)
    \/ \E p \in Procs : ReviewUpdate(p)
    \/ \E p \in Procs : ReviewSupersede(p)

SpecReview == Init /\ [][NextReview]_vars

SupersededNote == "Superseded by an approved verification."
\* the last statement of an approve review: slot p answers
ApproveCompletes(p) == At(p, "review", "supersede") /\ req'[p] # req[p]

\* C16: when an approve review of application A completes, A is approved,
\* every other application of A's applicant that was pending is rejected with
\* the superseded note, and every other application is as it was.
C16_SupersedeOnApprove ==
    [][\A p \in Procs : ApproveCompletes(p) =>
          LET A == req[p].id
          IN  /\ applications'[A].status = "approved"
              /\ \A i \in 1..Len(applications) :
                    IF /\ i # A
                       /\ applications[i].applicant_id = applications[A].applicant_id
                       /\ applications[i].status = "pending"
                    THEN /\ applications'[i].status = "rejected"
                         /\ applications'[i].review_note = SupersededNote
                    ELSE i # A => applications'[i] = applications[i]
      ]_vars

\* an approve review of the first of two applications of one applicant has
\* completed: the first is approved, the second carries the superseded note
C16_Witness ==
    /\ out.req.op = "review" /\ out.status = 200 /\ out.req.action = "approve" /\ out.req.id = 1
    /\ Len(applications) = 2
    /\ applications[1].applicant_id = applications[2].applicant_id
    /\ applications[1].status = "approved"
    /\ applications[2].status = "rejected" /\ applications[2].review_note = SupersededNote

\* C17: the status of an application only changes from pending to approved or
\* from pending to rejected, so approved is terminal; and an applicant's
\* effective status goes from rejected to pending only by the insert of a new
\* application.
C17_StatusStateMachine ==
    [][/\ \A i \in 1..Len(applications) :
             applications'[i].status # applications[i].status
             => /\ applications[i].status = "pending"
                /\ applications'[i].status \in {"approved", "rejected"}
       /\ \A u \in Users :
             (/\ resolveStateFromApplications(ApplicationsOf(u)).status = "rejected"
              /\ resolveStateFromApplications(ApplicationsOf(u))'.status = "pending")
             => \E p \in Procs : /\ At(p, "apply", "insert") /\ req'[p] # req[p]
                                 /\ req[p].caller.id = u
                                 /\ Len(applications') = Len(applications) + 1
      ]_vars

\* a rejected applicant has applied again and is pending
C17_Witness ==
    /\ Len(applications) = 2
    /\ applications[1].applicant_id = applications[2].applicant_id
    /\ applications[1].status = "rejected" /\ applications[1].review_note # SupersededNote
    /\ applications[2].status = "pending"
    /\ out.req.op = "apply" /\ out.status = 201

\* ------------------------------------------------- effective verification
\* The applications table holds any history of at most MaxHistory applications
\* of the two alumni accounts, in any order of creation and with any status;
\* the alumni read their verification state and the first of them creates a
\* JOB post.
Histories ==
    UNION {[1..n -> [applicant_id : {2, 5}, status : {"pending", "approved", "rejected"}]]
           : n \in 0..MaxHistory}
HistoryRows(h) ==
    [i \in 1..Len(h) |-> [id |-> i, applicant_id |-> h[i].applicant_id, status |-> h[i].status,
                          review_note |-> "", reviewed_by |-> NoUser]]

InitResolve ==
    /\ now = 0
    /\ posts = <<>>
    /\ tags = {}
    /\ postTags = {}
    /\ postRefs = <<>>
    /\ postVotes = {}
    /\ comments = <<>>
    /\ \E h \in Histories : applications = HistoryRows(h)
    /\ notificationStates = [u \in Users |-> NullTime]
    /\ notificationReads = {}
    /\ req = [p \in Procs |-> Idle]
    /\ out = NoResponse
    /\ sweptIds = {}

ResolveRequests ==
    {[op |-> "me", caller |-> Credential(2)],
     [op |-> "me", caller |-> Credential(5)],
     [op |-> "create", caller |-> Credential(2), body |-> [type |-> "JOB"]]}

NextResolve ==
    \/ \E r \in ResolveRequests : Receive(1, r)
    \/ VerificationMe(1)
    \/ PostsStart(1)
    \/ PostsInsert(1)
    \/ PostsRead(1)

SpecResolve == InitResolve /\ [][NextResolve]_vars

\* the priority rule over the set of statuses of an applicant's applications
StatusesOf(u) ==
    {applications[i].status : i \in {j \in 1..Len(applications) : applications[j].applicant_id = u}}
ByPriority(S) ==
    IF "approved" \in S THEN "approved"
    ELSE IF "pending" \in S THEN "pending"
    ELSE IF "rejected" \in S THEN "rejected"
    ELSE "not_submitted"
Orders(n) == {f \in [1..n -> 1..n] : \A i, j \in 1..n : f[i] = f[j] => i = j}
Reordered(rows, f) == [i \in 1..Len(rows) |-> rows[f[i]]]

\* C18: for every applicant and every order of the applicant's applications,
\* both services resolve the effective status to approved if any application
\* is approved, else pending if any is pending, else rejected if any is
\* rejected, else not_submitted; the verification state an alumni reads and the
\* JOB gate follow that status.
C18_PriorityResolution ==
    /\ \A u \in {2, 5} : \A f \in Orders(Len(ApplicationsOf(u))) :
          /\ resolveVerificationStatus(Reordered(ApplicationsOf(u), f)) = ByPriority(StatusesOf(u))
          /\ resolveStateFromApplications(Reordered(ApplicationsOf(u), f)).status
             = ByPriority(StatusesOf(u))
    /\ (out.req.op = "me" /\ out.status = 200) =>
          /\ out.data.status = ByPriority(StatusesOf(out.req.caller.id))
          /\ out.data.isVerified = ("approved" \in StatusesOf(out.req.caller.id))
    /\ (out.req.op = "create" /\ out.status = 403) => ByPriority(StatusesOf(out.req.caller.id)) # "approved"
    /\ (out.req.op = "create" /\ out.status = 201) => ByPriority(StatusesOf(out.req.caller.id)) = "approved"

\* an alumni whose newest application is rejected, with an older pending and
\* a still older approved one, reads the state approved
C18_Witness ==
    /\ Len(applications) = 3
    /\ \A i \in 1..3 : applications[i].applicant_id = 2
    /\ applications[1].status = "approved" /\ applications[2].status = "pending"
    /\ applications[3].status = "rejected"
    /\ out.req.op = "me" /\ out.req.caller.id = 2 /\ out.status = 200
    /\ out.data.status = "approved"

\* ------------------------------------------------------ reference rows
\* A post is created with a reference; two updates replace the reference and
\* a third clears it.
JobService == <<"j", "o", "b">>
RefRequests ==
    {[op |-> "create", caller |-> NoCredential,
      body |-> [type |-> "EVENT", ref |-> [service |-> JobService, entityId |-> 1]]],
     [op |-> "update", caller |-> NoCredential, postId |-> 1,
      body |-> [ref |-> [service |-> JobService, entityId |-> 2]]],
     [op |-> "update", caller |-> NoCredential, postId |-> 1,
      body |-> [ref |-> [service |-> JobService, entityId |-> 3]]],
     [op |-> "update", caller |-> NoCredential, postId |-> 1, body |-> [ref |-> NullRef]]}

NextRef ==
    \/ \E p \in Procs, r \in RefRequests : Receive(p, r)
    \/ \E p \in Procs : PostsStart(p)
    \/ \E p \in Procs : UpdateStart(p)
    \/ \E p \in Procs : RefDelete(p)
    \/ \E p \in Procs : RefInsert(p)
    \/ \E p \in Procs : PostsRead(p)

SpecRef == Init /\ [][NextRef]_vars

\* C19: in every reachable state each post has at most one reference row;
\* the delete of a replace removes every reference row of the post and its
\* insert adds exactly the row supplied, none when the ref is null.
C19_ReferenceCardinality ==
    /\ [](\A i \in 1..Len(posts) : Len(RefsOfPost(i)) <= 1)
    /\ [][\A p \in Procs :
            /\ (Writing(p, "ref_delete") /\ req'[p] # req[p]) =>
                  /\ RefsOfPost(req[p].postId)' = <<>>
                  /\ (req[p].payload.ref = NullRef) = (req'[p].pc = "read")
            /\ (Writing(p, "ref_insert") /\ req'[p] # req[p]) =>
                  /\ Len(postRefs') = Len(postRefs) + 1
                  /\ postRefs'[Len(postRefs')].post_id = req[p].postId
                  /\ postRefs'[Len(postRefs')].entity_id = req[p].body.ref.entityId
        ]_vars

\* a reference has been replaced: the answer of the update shows the new row
\* alone
C19_Witness ==
    /\ out.req.op = "update" /\ out.status = 200
    /\ out.req.body.ref # NullRef /\ out.req.body.ref.entityId = 2
    /\ Len(out.data.refs) = 1 /\ out.data.refs[1].entity_id = 2
    /\ postRefs = out.data.refs

\* ---------------------------------------------------- notification state
\* A user marks notifications read with the timestamps 1 and 2, with a key
\* alone and with a body that carries neither; another user marks read too.
SeenRequests ==
    {[op |-> "markRead", caller |-> Credential(3), body |-> [lastSeenAt |-> 1]],
     [op |-> "markRead", caller |-> Credential(3), body |-> [lastSeenAt |-> 2]],
     [op |-> "markRead", caller |-> Credential(3), body |-> [notificationKey |-> "post:1"]],
     [op |-> "markRead", caller |-> Credential(3), body |-> [lastSeenAt |-> BadDate]],
     [op |-> "markRead", caller |-> Credential(2),
      body |-> [lastSeenAt |-> 1, notificationKey |-> "post:1"]]}

NextSeen ==
    \/ \E p \in Procs, r \in SeenRequests : Receive(p, r)
    \/ \E p \in Procs : MarkReadStart(p)
    \/ \E p \in Procs : MarkReadStateUpsert(p)
    \/ \E p \in Procs : MarkReadKeyUpsert(p)
    \/ \E p \in Procs : MarkReadFetchState(p)
    \/ \E p \in Procs : MarkReadFetchReads(p)

SpecSeen == Init /\ [][NextSeen]_vars

\* C20: no step moves a user's stored lastSeenAt backward; the write of a
\* markRead that carries a timestamp leaves the later of the value stored
\* before the write and the timestamp supplied; a markRead that carries only
\* a notificationKey leaves lastSeenAt as it was.
C20_LastSeenMonotonic ==
    [][/\ \A u \in Users : notificationStates'[u] >= notificationStates[u]
       /\ \A p \in Procs :
             /\ (At(p, "markRead", "state_upsert") /\ req'[p] # req[p]) =>
                   notificationStates'[req[p].caller.id]
                   = laterIso(notificationStates[req[p].caller.id], req[p].body.lastSeenAt)
             /\ (req[p].op = "markRead" /\ ~Has(req[p].body, "lastSeenAt") /\ req'[p] # req[p]) =>
                   notificationStates' = notificationStates
      ]_vars

\* with 2 stored, a markRead carrying 1 has been answered with lastSeenAt 2
C20_Witness ==
    /\ out.req.op = "markRead" /\ out.status = 200
    /\ Get(out.req.body, "lastSeenAt", NullTime) = 1 /\ out.req.existingState = 2
    /\ out.data.lastSeenAt = 2 /\ notificationStates[out.req.caller.id] = 2

\* ------------------------------------------------ the two status reducers
\* C30: on every list of application rows the post service's
\* resolveVerificationStatus and the user service's
\* resolveStateFromApplications return the same status, and isVerified is
\* true exactly when that status is approved.
C30_ReducersAgree ==
    \A rows \in {applications} \cup {ApplicationsOf(u) : u \in Users} :
        \A f \in Orders(Len(rows)) :
            LET list == Reordered(rows, f)
                state == resolveStateFromApplications(list)
            IN  /\ resolveVerificationStatus(list) = state.status
                /\ state.isVerified = (state.status = "approved")
                /\ state.status \in {"approved", "pending", "rejected", "not_submitted"}

\* with a pending, an approved and a rejected application of one alumni in
\* the table, the JOB gate has let that alumni's post through
C30_Witness ==
    /\ Len(applications) = 3
    /\ \A i \in 1..3 : applications[i].applicant_id = 2
    /\ applications[1].status = "pending" /\ applications[2].status = "approved"
    /\ applications[3].status = "rejected"
    /\ out.req.op = "create" /\ out.req.caller.id = 2 /\ out.status = 201
    /\ resolveStateFromApplications(ApplicationsOf(2)).isVerified

\* ------------------------------------------- one pending application each
PendingOf(u) == {i \in 1..Len(applications) :
                    applications[i].applicant_id = u /\ applications[i].status = "pending"}

\* C29 as stated: an apply request is answered 409 whenever the applicant's
\* effective status is pending or approved, and in every reachable state an
\* applicant has at most one pending application and no pending application
\* next to an approved one.
C29_OnePendingApplication ==
    /\ [](\A u \in Users :
             /\ Cardinality(PendingOf(u)) <= 1
             /\ PendingOf(u) # {} => "approved" \notin StatusesOf(u))
    /\ [][\A p \in Procs :
            (/\ At(p, "apply", "start") /\ req'[p] # req[p]
             /\ ByPriority(StatusesOf(req[p].caller.id)) \in {"pending", "approved"})
            => out'.status = 409 /\ applications' = applications
        ]_vars

\* C29: the check of an apply request of an alumni answers 409 and writes
\* nothing exactly when the applicant's effective status is pending or
\* approved at that moment, and otherwise goes on to the insert; the insert
\* adds one pending application of the caller and changes no other.
C29_ApplyConflict ==
    [][\A p \in Procs :
          /\ (At(p, "apply", "start") /\ req'[p] # req[p]) =>
                /\ applications' = applications
                /\ IF ByPriority(StatusesOf(req[p].caller.id)) \in {"pending", "approved"}
                   THEN out'.status = 409 /\ out'.req = req[p]
                   ELSE out' = out /\ req'[p].pc = "insert"
          /\ (At(p, "apply", "insert") /\ req'[p] # req[p]) =>
                /\ Len(applications') = Len(applications) + 1
                /\ \A i \in 1..Len(applications) : applications'[i] = applications[i]
                /\ applications'[Len(applications')].applicant_id = req[p].caller.id
                /\ applications'[Len(applications')].status = "pending"
      ]_vars

\* an alumni who has two pending applications has applied again and got 409
C29_Witness ==
    /\ out.req.op = "apply" /\ out.status = 409
    /\ out.data = "You already have a pending application."
    /\ Cardinality(PendingOf(out.req.caller.id)) = 2

\* ------------------------------------------------------- slug collisions
\* The tags "Node.js", "Node JS" and "Events" are created through POST /tags
\* and a post is created with the tag name "Node JS".
SlugRequests ==
    {[op |-> "tag", caller |-> NoCredential, name |-> <<"N", "o", "d", "e", ".", "j", "s">>],
     [op |-> "tag", caller |-> NoCredential, name |-> <<"N", "o", "d", "e", " ", "J", "S">>],
     [op |-> "tag", caller |-> NoCredential, name |-> EventsName],
     [op |-> "tag", caller |-> NoCredential, name |-> <<".">>],
     [op |-> "create", caller |-> NoCredential,
      body |-> [type |-> "EVENT", tags |-> << <<" ", "N", "o", "d", "e", " ", "J", "S">> >>]]}

NextSlug ==
    \/ \E p \in Procs, r \in SlugRequests : Receive(p, r)
    \/ \E p \in Procs : TagsCreate(p)
    \/ \E p \in Procs : PostsStart(p)
    \/ \E p \in Procs : TagsEnsure(p)
    \/ \E p \in Procs : TagsDelete(p)
    \/ \E p \in Procs : TagsInsert(p)
    \/ \E p \in Procs : PostsRead(p)

SpecSlug == Init /\ [][NextSlug]_vars

\* the name a tag write of slot p carries, trimmed
WrittenName(p) ==
    IF req[p].op = "tag" THEN trim(req[p].name)
    ELSE CHOOSE n \in req[p].payload.tagNames : TRUE
TagWrites(p) ==
    /\ At(p, "tag", "start") \/ Writing(p, "tags_ensure")
    /\ req'[p] # req[p]
    /\ slugify(WrittenName(p)) # <<>>

JobsSlug == <<"j", "o", "b", "s">>
TagSetRequests ==
    {[op |-> "create", caller |-> NoCredential,
      body |-> [type |-> "EVENT", tags |-> <<EventsName, JobsSlug>>]],
     [op |-> "update", caller |-> NoCredential, postId |-> 1, body |-> [tags |-> <<EventsSlug>>]],
     [op |-> "update", caller |-> NoCredential, postId |-> 1, body |-> [tags |-> <<JobsSlug>>]],
     [op |-> "update", caller |-> NoCredential, postId |-> 1, body |-> [tags |-> <<>>]],
     [op |-> "update", caller |-> NoCredential, postId |-> 1, body |-> [title |-> "Moved"]]}

NextTagSet ==
    \/ \E p \in Procs, r \in TagSetRequests : Receive(p, r)
    \/ \E p \in Procs : PostsStart(p)
    \/ \E p \in Procs : UpdateStart(p)
    \/ \E p \in Procs : TagsEnsure(p)
    \/ \E p \in Procs : TagsDelete(p)
    \/ \E p \in Procs : TagsInsert(p)
    \/ \E p \in Procs : PostsRead(p)

SpecTagSet == Init /\ [][NextTagSet]_vars

SlugsOfPost(postId) == {t.slug : t \in TagsOfPost(postId)}

\* C22: when a create or update request that supplies tags completes
\* successfully, the tags read back for the post are exactly the supplied
\* ones, by slug; no step of a request that omits tags changes the post's tag
\* set.
C22_TagRoundTrip ==
    [][\A p \in Procs :
          /\ (Writing(p, "read") /\ req'[p] # req[p] /\ req[p].payload.tagsProvided) =>
                /\ out'.status \in {200, 201}
                /\ {t.slug : t \in out'.data.tags} = SlugsOf(req[p].payload.tagNames)
          /\ (req[p].op = "update" /\ ~Has(req[p].body, "tags") /\ req'[p] # req[p]) =>
                \A i \in 1..Len(posts) : SlugsOfPost(i)' = SlugsOfPost(i)
      ]_vars

\* the post created with events and jobs has been updated with events alone
\* and reads back with that tag only
C22_Witness ==
    /\ out.req.op = "update" /\ out.status = 200 /\ out.req.body = [tags |-> <<EventsSlug>>]
    /\ {t.slug : t \in out.data.tags} = {EventsSlug}
    /\ SlugsOfPost(1) = {EventsSlug}
    /\ \E t \in tags : t.slug = JobsSlug

\* ----------------------------------------------------------- expiry gate
\* A post is created in the name of alumni 2 and another without an author;
\* the expiry of the first is patched, together with a title, by nobody, by a
\* student, by its author and by an admin, and the student patches the expiry
\* of the second.
ExpiryRequests ==
    {[op |-> "create", caller |-> NoCredential, body |-> [type |-> "EVENT", authorId |-> 2]],
     [op |-> "create", caller |-> NoCredential, body |-> [type |-> "EVENT"]]}
    \cup {[op |-> "update", caller |-> c, postId |-> 1,
           body |-> [expiresAt |-> 0, title |-> "Moved"]]
          : c \in {NoCredential, Credential(3), Credential(2), Credential(1)}}
    \cup {[op |-> "update", caller |-> Credential(3), postId |-> 2, body |-> [expiresAt |-> 1]]}

NextExpiry ==
    \/ \E p \in Procs, r \in ExpiryRequests : Receive(p, r)
    \/ \E p \in Procs : PostsStart(p)
    \/ \E p \in Procs : UpdateStart(p)
    \/ \E p \in Procs : UpdateWrite(p)
    \/ \E p \in Procs : PostsRead(p)

SpecExpiry == Init /\ [][NextExpiry]_vars

\* slot p takes the first step of a PATCH that carries expiresAt
ExpiryCheck(p) ==
    At(p, "update", "start") /\ Has(req[p].body, "expiresAt") /\ req'[p] # req[p]
MayUpdateExpiry(caller, postId) ==
    /\ caller.id # NoUser
    /\ isModeratorRole(caller.role) \/ (PostExists(postId) /\ posts[postId].author_id = caller.id)

\* C23: a PATCH that carries expiresAt is refused with 401, 403 or 404, and
\* changes no post row, tag link or reference row, unless its caller is a
\* moderator or the author the post has when the handler checks; the other
\* fields of the refused request are not written either, and no other request
\* of a non-moderator writes an expires_at.
C23_ExpiryGate ==
    [][\A p \in Procs :
          /\ (ExpiryCheck(p) /\ ~MayUpdateExpiry(req[p].caller, req[p].postId)) =>
                /\ out'.status \in {401, 403, 404} /\ out'.req = req[p]
                /\ UNCHANGED <<posts, postTags, postRefs>>
          /\ (ExpiryCheck(p) /\ MayUpdateExpiry(req[p].caller, req[p].postId)) =>
                IF ~isModeratorRole(req[p].caller.role)
                THEN posts' = posts /\ req'[p].pc = "write"
                ELSE IF PostExists(req[p].postId)
                THEN posts'[req[p].postId].expires_at = req[p].body.expiresAt
                ELSE posts' = posts /\ out'.status = 404
          /\ (req[p].op = "update" /\ req'[p] # req[p] /\ posts' # posts
              /\ Has(req[p].body, "expiresAt")) =>
                isModeratorRole(req[p].caller.role) \/ req[p].pc = "write"
      ]_vars

\* the student's PATCH of expiry and title has been refused with 403 and the
\* post has neither
C23_Witness ==
    /\ out.req.op = "update" /\ out.status = 403 /\ out.req.caller.id = 3
    /\ Has(out.req.body, "title")
    /\ PostExists(1) /\ posts[1].author_id = 2
    /\ posts[1].expires_at = NullTime /\ posts[1].title # "Moved"

\* ------------------------------------------- PATCH /posts/:id: status, type
\* A student creates an event and is refused an announcement; then PATCHes
\* by the student and by a caller without credential.
PatchRequests ==
    {[op |-> "create", caller |-> Credential(3),
      body |-> [type |-> "EVENT", authorId |-> 3, status |-> "published"]],
     [op |-> "create", caller |-> Credential(3), body |-> [type |-> "ANNOUNCEMENT"]],
     [op |-> "update", caller |-> NoCredential, postId |-> 1,
      body |-> [archive |-> TRUE, status |-> "published"]],
     [op |-> "update", caller |-> Credential(3), postId |-> 1, body |-> [title |-> "Moved"]],
     [op |-> "update", caller |-> NoCredential, postId |-> 1, body |-> [type |-> "ANNOUNCEMENT"]],
     [op |-> "update", caller |-> Credential(3), postId |-> 1,
      body |-> [type |-> "JOB", authorId |-> 2]]}

NextPatch ==
    \/ \E p \in Procs, r \in PatchRequests : Receive(p, r)
    \/ \E p \in Procs : PostsStart(p)
    \/ \E p \in Procs : UpdateStart(p)
    \/ \E p \in Procs : PostsRead(p)

SpecPatch == Init /\ [][NextPatch]_vars

\* slot p takes a step of the PATCH handler up to its update statement
UpdateStep(p) ==
    req[p].op = "update" /\ req[p].pc \in {"start", "write"} /\ req'[p] # req[p]
\* ... and the update statement ran: the handler goes on to what follows it
Updated(p) ==
    UpdateStep(p) /\ req'[p] # Idle /\ req'[p].pc \notin {"start", "write"}
CarriesArchive(body) == Has(body, "archive") /\ body.archive = TRUE

\* C24: the update statement of a PATCH carrying archive:true leaves the post
\* archived whatever status the same request names, and no step of a PATCH
\* that carries neither archive:true nor status changes any post's status.
C24_ArchivePrecedence ==
    [][\A p \in Procs :
          /\ (Updated(p) /\ CarriesArchive(req[p].body)) =>
                posts'[req[p].postId].status = "archived"
          /\ (UpdateStep(p) /\ ~CarriesArchive(req[p].body) /\ ~Has(req[p].body, "status")) =>
                \A i \in 1..Len(posts) : posts'[i].status = posts[i].status
      ]_vars

\* the PATCH with archive:true and status published has answered and the post,
\* created published, is archived
C24_Witness ==
    /\ out.req.op = "update" /\ out.status = 200
    /\ CarriesArchive(out.req.body) /\ Get(out.req.body, "status", "") = "published"
    /\ posts[out.req.postId].status = "archived"

\* the callers the authoring policy admits for a type
PassesPolicy(type, caller) == AuthoringGate(type, caller) \notin {"401", "403"}
Gated(type) == upperType(type) \in {"ANNOUNCEMENT", "JOB"}

\* C28: when every caller is a non-moderator or has no credential, no stored
\* post is an announcement, a post is stored as ANNOUNCEMENT or JOB only by an
\* insert of a caller the authoring policy admits, with that caller as its
\* author, and no later step gives an existing post one of these types or
\* another author to a post that has one.
C28_NoGateBypass ==
    [][/\ \A i \in 1..Len(posts') : upperType(posts'[i].type) # "ANNOUNCEMENT"
       /\ \A i \in 1..Len(posts) :
             /\ Gated(posts'[i].type) => Gated(posts[i].type)
             /\ Gated(posts[i].type) => posts'[i].author_id = posts[i].author_id
       /\ \A p \in Procs :
             (req'[p] # req[p] /\ Len(posts') > Len(posts) /\ Gated(posts'[Len(posts')].type)) =>
                /\ PassesPolicy(posts'[Len(posts')].type, req[p].caller)
                /\ posts'[Len(posts')].author_id = req[p].caller.id
      ]_vars

\* a PATCH without credential has answered 200 and the student's event is
\* stored as an announcement
C28_Witness ==
    /\ out.req.op = "update" /\ out.status = 200 /\ out.req.caller = NoCredential
    /\ PostExists(1) /\ posts[1].type = "ANNOUNCEMENT" /\ posts[1].author_id = 3

\* slot p runs the update statement of a PATCH that names a status, carries
\* no archive flag and passes the expiry gate, on a post that is archived
Republish(p) ==
    /\ UpdateStep(p)
    /\ req[p].pc = "write" \/ ~Has(req[p].body, "expiresAt")
    /\ ~CarriesArchive(req[p].body)
    /\ Get(req[p].body, "status", "") \in {"draft", "published"}
    /\ PostExists(req[p].postId) /\ posts[req[p].postId].status = "archived"
Expired(row, at) == row.expires_at # NullTime /\ row.expires_at < at

\* C27: archived is not terminal on the update path: a PATCH that names the
\* status draft or published and carries no archive flag moves an archived
\* post to that status, and every run of the sweep archives each draft or
\* published post whose expiresAt is in the past, a post moved back included.
C27_ArchivedNotTerminal ==
    [][/\ \A p \in Procs :
             Republish(p) => posts'[req[p].postId].status = req[p].body.status
       /\ IsSweepStep =>
             \A i \in 1..Len(posts) :
                (Expired(posts[i], now) /\ posts[i].status # "archived")
                => posts'[i].status = "archived"
      ]_vars

\* the only post that expires has been archived by a run from the internal
\* endpoint, published again by a PATCH, and archived once more by the sweep
\* of a feed read
C27_Witness ==
    /\ out.req.op = "archive" /\ out.data.archivedCount = 1
    /\ \E p \in Procs : req[p].op = "feed" /\ req[p].pc # "start" /\ req[p].archivedCount = 1
    /\ \E p \in Procs : req[p].op = "update" /\ req[p].pc = "read"
    /\ PostExists(1) /\ Expired(posts[1], now) /\ posts[1].status = "archived"
    /\ \A i \in 2..Len(posts) : posts[i].expires_at = NullTime

\* ---------------------------------------------------------- comment thread
\* A published post that expires at time 0 is created and the background
\* sweep archives it while a student comments on it, with a padded text at
\* the length ceiling, a blank text and a text above the ceiling.  The first
\* slot serves the creates, the other slots the comments.
AtCeiling == Text("max", MaxContentLength, 2)
ThreadRequests ==
    {[op |-> "create", caller |-> NoCredential,
      body |-> [type |-> "EVENT", status |-> "published", expiresAt |-> 0]]}
    \cup {[op |-> "comment", caller |-> Credential(3), postId |-> 1, body |-> [content |-> c]]
          : c \in {AtCeiling, Text("", 0, 3), Text("long", MaxContentLength + 1, 0)}}

NextThread ==
    \/ \E p \in Procs, r \in ThreadRequests : (p = 1) = (r.op = "create") /\ Receive(p, r)
    \/ Tick
    \/ ArchiveTimer
    \/ \E p \in Procs : PostsStart(p)
    \/ \E p \in Procs : PostsRead(p)
    \/ \E p \in Procs : CommentsStart(p)
    \/ \E p \in Procs : CommentsInsert(p)
    \/ \E p \in Procs : CommentsCount(p)

SpecThread == Init /\ [][NextThread]_vars

\* slot p takes a step of POST /posts/:id/comments
AddStep(p) == req[p].op = "comment" /\ req'[p] # req[p]
ValidContent(body) ==
    Has(body, "content") /\ body.content.len \in 1..MaxContentLength

\* C26: a step of the add handler inserts a comment only when the trimmed
\* content is non-empty and within the ceiling and the post exists and is not
\* archived at that step; an authenticated request that fails one of these
\* when the handler checks is answered 400 or 404 and leaves the comment store
\* as it was; whatever sweep the request interleaves with.
C26_CommentGuard ==
    [][\A p \in Procs :
          /\ (AddStep(p) /\ comments' # comments) =>
                /\ ValidContent(req[p].body)
                /\ comments' = Append(comments, comments'[Len(comments')])
                /\ comments'[Len(comments')].content = normalizeText(req[p].body.content)
                /\ PostExists(req[p].postId) /\ posts[req[p].postId].status # "archived"
          /\ (AddStep(p) /\ req[p].pc = "start" /\ req[p].caller.id # NoUser
              /\ (\/ ~ValidContent(req[p].body) \/ ~PostExists(req[p].postId)
                  \/ posts[req[p].postId].status = "archived")) =>
                /\ out'.req = req[p] /\ comments' = comments
                /\ out'.status = IF ~ValidContent(req[p].body) THEN 400
                                 ELSE IF ~PostExists(req[p].postId) THEN 404 ELSE 400
      ]_vars

\* a comment request on the archived post has been answered 400 and the
\* comment store holds a row of that post
C26_Witness ==
    /\ out.req.op = "comment" /\ out.status = 400
    /\ out.data = "Archived posts cannot be commented on."
    /\ PostExists(out.req.postId) /\ posts[out.req.postId].status = "archived"
    /\ commentCount(out.req.postId) > 0

\* --------------------------------------------------- comment authorization
\* A student comments on a post; the comment with id 1 is edited by an admin
\* and by another user, and deleted by its author and by the other user.
Hello == Text("hello", 5, 0)
ModerateRequests ==
    {[op |-> "create", caller |-> NoCredential, body |-> [type |-> "EVENT", status |-> "published"]],
     [op |-> "comment", caller |-> Credential(3), postId |-> 1, body |-> [content |-> Hello]]}
    \cup {[op |-> "editComment", caller |-> Credential(u), postId |-> 1, commentId |-> 1,
           body |-> [content |-> Text("edited", 6, 1)]] : u \in {1, 2}}
    \cup {[op |-> "deleteComment", caller |-> Credential(u), postId |-> 1, commentId |-> 1]
          : u \in {2, 3}}

NextModerate ==
    \/ \E p \in Procs, r \in ModerateRequests : Receive(p, r)
    \/ \E p \in Procs : PostsStart(p)
    \/ \E p \in Procs : PostsRead(p)
    \/ \E p \in Procs : CommentsStart(p)
    \/ \E p \in Procs : CommentsInsert(p)
    \/ \E p \in Procs : CommentsCount(p)
    \/ \E p \in Procs : CommentEditStart(p)
    \/ \E p \in Procs : CommentEditUpdate(p)
    \/ \E p \in Procs : CommentDeleteStart(p)
    \/ \E p \in Procs : CommentDeleteRow(p)

SpecModerate == Init /\ [][NextModerate]_vars

\* slot p takes a step of the edit or of the delete handler
ModifyStep(p) == req[p].op \in {"editComment", "deleteComment"} /\ req'[p] # req[p]
OwnerOrModerator(p) ==
    \/ comments[req[p].commentId].author_id = req[p].caller.id
    \/ RoleOf(req[p].caller.id) \in {"admin", "Faculty"}

\* C25: a step of the edit or delete handler changes the comment store only
\* for a caller who is the comment's author or a moderator; an authenticated
\* caller who is neither, asking for an existing comment (with valid content,
\* for an edit), is answered 403 and the store is left as it was; no step
\* changes the author_id, post_id, id or created_at of a comment, an edit
\* changes nothing but content and updated_at of its comment, and a delete
\* removes its comment only.
C25_CommentAuthorization ==
    [][/\ \A i \in 1..Len(comments) :
             /\ i <= Len(comments')
             /\ comments'[i].author_id = comments[i].author_id
             /\ comments'[i].post_id = comments[i].post_id
             /\ comments'[i].id = i /\ comments'[i].created_at = comments[i].created_at
       /\ \A p \in Procs :
             /\ (ModifyStep(p) /\ comments' # comments) =>
                   /\ OwnerOrModerator(p)
                   /\ \A i \in 1..Len(comments) : i # req[p].commentId => comments'[i] = comments[i]
                   /\ Len(comments') = Len(comments)
                   /\ IF req[p].op = "editComment"
                      THEN comments' = [comments EXCEPT
                                          ![req[p].commentId].content = normalizeText(req[p].body.content),
                                          ![req[p].commentId].updated_at = now]
                      ELSE comments' = [comments EXCEPT ![req[p].commentId].deleted = TRUE]
             /\ (/\ ModifyStep(p) /\ req[p].pc = "start" /\ req[p].caller.id # NoUser
                 /\ getPostCommentById(req[p].postId, req[p].commentId) # NoComment
                 /\ req[p].op = "editComment" => ValidContent(req[p].body)
                 /\ ~OwnerOrModerator(p)) =>
                   out'.status = 403 /\ out'.req = req[p] /\ comments' = comments
      ]_vars

\* the alumni's edit of the student's comment has been answered 403 and the
\* comment has the text its author gave it
C25_Witness ==
    /\ out.req.op = "editComment" /\ out.status = 403 /\ out.req.caller.id = 2
    /\ Len(comments) >= 1 /\ ~comments[1].deleted
    /\ comments[1].author_id = 3 /\ comments[1].content = Hello

====
